---- MODULE Spec2Model ----
(***************************************************************************)
(* Model of the obsidian-mcp-server request pipeline: the rate limiter,    *)
(* the tool-calling handler with its timeout race, the property manager's  *)
(* read-merge-write of YAML front matter, and the tag resource's cache.    *)
(*                                                                         *)
(* Time is a discrete clock `now' (Date.now()).  JavaScript runs each      *)
(* callback to its next await without preemption, so every action below    *)
(* is one such run: from the arrival of a request, a backend reply or a    *)
(* timer to the next suspension point.                                     *)
(***************************************************************************)
EXTENDS Integers, Sequences, FiniteSets, TLC

(***************************************************************************)
(* Bounds of the model.                                                    *)
(***************************************************************************)
MaxRequests == 2        \* RateLimitConfig.maxRequests of the instance
WindowMs == 3           \* RateLimitConfig.windowMs of the instance
ToolTimeoutMs == 2      \* DEFAULT_TIMEOUT_CONFIG.toolExecutionMs
MaxTime == 4            \* the clock stops here
MaxLive == 2            \* invocations in progress at the same time
MaxTextTokens == 5      \* tokens of the longest response text
MaxTokenLimit == 5      \* the largest token ceiling (MAX_TOKENS)
MaxHandlers == 2        \* cleanup handlers given to setupShutdownHandling
MaxSignals == 2         \* termination signals delivered to the process
MaxCalls == 4           \* direct checkRateLimit calls per key and window
UpdateIntervalMs == 1   \* TagResource.updateInterval
MaxReaders == 2         \* getContent calls in progress at the same time

(***************************************************************************)
(* Error codes.                                                            *)
(***************************************************************************)
INTERNAL_SERVER_ERROR == 50000
TIMEOUT == 50800
BAD_REQUEST == 40000
NOT_FOUND == 40400
RATE_LIMIT_EXCEEDED == 40900
SUCCESS_NO_CONTENT == 20400

\* the code of the error RateLimiter.enforceRateLimit throws
RateLimiterCode == 42900

UPDATE_PROPERTIES == "obsidian_update_properties"
GET_FILE_CONTENTS == "obsidian_get_file_contents"

\* the registry built by createToolHandlerMap, restricted to the two tools modelled
toolHandlers == {UPDATE_PROPERTIES, GET_FILE_CONTENTS}

(***************************************************************************)
(* Front-matter properties.  A property mapping is a function whose        *)
(* DOMAIN is the set of keys present (Object.keys).  Scalars are strings,  *)
(* array-valued keys hold sequences of strings, `modified' holds a         *)
(* timestamp (the ISO-8601 string of a clock value, which orders as the    *)
(* clock value does).                                                      *)
(***************************************************************************)
EmptyProps == [k \in {} |-> ""]

StatusEnum == {"draft", "in-progress", "review", "complete"}

\* keys declared by ObsidianPropertiesSchema (the read schema)
ReadSchemaKeys ==
    {"title", "modified", "author", "type", "tags", "status", "version",
     "platform", "repository", "dependencies", "sources", "urls", "papers",
     "custom"}

\* keys declared by PropertyUpdateSchema (the update schema: no timestamps)
UpdateSchemaKeys == ReadSchemaKeys \ {"modified"}

\* keys whose values are arrays in this model (Array.isArray)
ArrayKeys == {"type", "tags", "status", "dependencies", "sources", "urls", "papers"}

IsArray(key) == key \in ArrayKeys

SeqToSet(s) == {s[i] : i \in DOMAIN s}

\* tag.startsWith('#') ? tag.substring(1) : tag
StripHash(tag) ==
    CASE tag = "#a" -> "a"
      [] tag = "#b" -> "b"
      [] tag = "#c" -> "c"
      [] OTHER -> tag

StartsWithHash(tag) == tag \in {"#a", "#b", "#c"}

\* the spread without the Set: every occurrence is kept
DedupNothing(s) == s

\* [...new Set(s)]: the first occurrence of every element, in order
RECURSIVE Dedup(_)
Dedup(s) ==
    IF s = <<>> THEN <<>>
    ELSE LET front == Dedup(SubSeq(s, 1, Len(s) - 1))
             last == s[Len(s)]
         IN IF last \in SeqToSet(front) THEN front ELSE Append(front, last)

\* the strings of this model that new URL() accepts (z.string().url())
WellFormedUrls == {"https://x.org", "https://github.com/o/r"}

IsUrl(s) == s \in WellFormedUrls

\* the issues zod raises for the keys a schema declares: the path of each
\* (array indices count from 0) and its message
SchemaIssues(schemaKeys, props) ==
    LET declared == DOMAIN props \cap schemaKeys
    IN UNION {
        {<<<<k, j - 1>>, "Invalid enum value">> :
            j \in {n \in DOMAIN props[k] : props[k][n] \notin StatusEnum}} :
            k \in declared \cap {"status"}}
       \cup UNION {
        {<<<<k, j - 1>>, "Invalid url">> :
            j \in {n \in DOMAIN props[k] : ~IsUrl(props[k][n])}} :
            k \in declared \cap {"urls"}}
       \cup {<<<<k>>, "Invalid url">> :
                k \in {r \in declared \cap {"repository"} : ~IsUrl(props[r])}}

\* the values a schema accepts for the keys it declares (zod safeParse)
SchemaAccepts(schemaKeys, props) == SchemaIssues(schemaKeys, props) = {}

\* result.data of a z.object: undeclared keys are stripped
SchemaData(schemaKeys, props) ==
    [k \in DOMAIN props \cap schemaKeys |-> props[k]]

(***************************************************************************)
(* Note content: an optional leading front-matter block holding a YAML     *)
(* mapping, followed by the body.  fm tells how the text begins:           *)
(*   "none"           no front-matter block;                               *)
(*   "yaml"           a block of well-formed YAML, a newline after its     *)
(*                    closing fence;                                       *)
(*   "eof"            a block of well-formed YAML whose closing fence ends *)
(*                    the text (no newline after it, no body);             *)
(*   "malformed"      a block whose YAML does not parse, a newline after   *)
(*                    its closing fence;                                   *)
(*   "malformed-eof"  a block whose YAML does not parse and whose closing  *)
(*                    fence ends the text;                                 *)
(*   "rule"           no front-matter block: the text begins with RuleText *)
(*                    (a rule line of four dashes, a paragraph and a rule  *)
(*                    line of three dashes), and body is what follows it.  *)
(***************************************************************************)
NoteContent(fm, yaml, body) == [fm |-> fm, yaml |-> yaml, body |-> body]

RuleText == "----\nintro\n---\n"

MalformedBlock == "---\ntitle: [bad\n---"

\* the order in which stringify writes the keys of this model
KeyOrder ==
    <<"title", "created", "modified", "author", "tags", "status",
      "repository", "urls", "custom", "foo">>

\* stringify: the YAML text of a mapping, one line per key
RECURSIVE StringifyFrom(_, _)
StringifyFrom(properties, i) ==
    IF i > Len(KeyOrder) THEN ""
    ELSE (IF KeyOrder[i] \in DOMAIN properties
          THEN KeyOrder[i] \o ": " \o ToString(properties[KeyOrder[i]]) \o "\n"
          ELSE "")
         \o StringifyFrom(properties, i + 1)

stringify(properties) == StringifyFrom(properties, 1)

\* the text of the note after its front-matter block, the whole text when it
\* has none
Body(content) ==
    IF content.fm = "rule" THEN RuleText \o content.body ELSE content.body

\* content.match(/^---\r?\n([\s\S]*?)\r?\n---/): a fence line, text, a fence
MatchesFrontmatter(content) == content.fm \notin {"none", "rule"}

\* parse(frontmatter) returns instead of throwing
YamlParses(content) == content.fm \in {"yaml", "eof"}

\* content.replace(/^---[\s\S]*?---\r?\n/, ''): the text from its first three
\* dashes up to the first three dashes that a newline follows is removed
StripFrontmatter(content) ==
    CASE content.fm = "eof" -> "---\n" \o stringify(content.yaml) \o "---"
      [] content.fm = "malformed-eof" -> MalformedBlock
      [] OTHER -> content.body

\* PropertyManager.parseProperties
parseProperties(content) ==
    IF ~MatchesFrontmatter(content) THEN EmptyProps
    ELSE IF ~YamlParses(content) THEN EmptyProps
    ELSE LET raw == content.yaml
             properties ==
                 [k \in DOMAIN raw |->
                     IF k = "tags"
                     THEN [i \in DOMAIN raw[k] |-> StripHash(raw[k][i])]
                     ELSE raw[k]]
         IN IF SchemaAccepts(ReadSchemaKeys, properties)
            THEN SchemaData(ReadSchemaKeys, properties)
            ELSE properties

\* PropertyManager.generateProperties: the front-matter block of a mapping
generateProperties(properties) == [fm |-> "yaml", yaml |-> properties]

\* PropertyManager.validateProperties: the list of violations
validateProperties(properties) == SchemaIssues(UpdateSchemaKeys, properties)

\* the skip test of the merge loop
SkipKey(key) == key = "created" \/ key = "modified"

\* mergeProperties that stamps `modified' only when the update names a key
mergePropertiesStampingChanges(existing, updates, replace, t) ==
    LET keys == {k \in DOMAIN updates : ~SkipKey(k)}
        valueOf(k) ==
            IF k \in keys
            THEN IF IsArray(k) /\ k \in DOMAIN existing
                 THEN IF replace THEN updates[k]
                      ELSE Dedup(existing[k] \o updates[k])
                 ELSE updates[k]
            ELSE existing[k]
    IN [k \in DOMAIN existing \cup keys
                \cup (IF keys = {} THEN {} ELSE {"modified"}) |->
           IF k = "modified" /\ keys # {} THEN t ELSE valueOf(k)]

\* mergeProperties that takes the union of two arrays whatever `replace' says
mergePropertiesIgnoringReplace(existing, updates, replace, t) ==
    LET keys == {k \in DOMAIN updates : ~SkipKey(k)}
        valueOf(k) ==
            IF k \in keys
            THEN IF IsArray(k) /\ k \in DOMAIN existing
                 THEN Dedup(existing[k] \o updates[k])
                 ELSE IF k = "custom"
                 THEN IF k \in DOMAIN existing
                      THEN [c \in DOMAIN existing[k] \cup DOMAIN updates[k] |->
                               IF c \in DOMAIN updates[k] THEN updates[k][c]
                               ELSE existing[k][c]]
                      ELSE updates[k]
                 ELSE updates[k]
            ELSE existing[k]
    IN [k \in DOMAIN existing \cup keys \cup {"modified"} |->
           IF k = "modified" THEN t ELSE valueOf(k)]

\* mergeProperties that merges `modified' like any key and stamps the result
\* only when the caller sent none
mergePropertiesTrustingCaller(existing, updates, replace, t) ==
    LET keys == {k \in DOMAIN updates : k # "created"}
        valueOf(k) ==
            IF k \in keys
            THEN IF IsArray(k) /\ k \in DOMAIN existing
                 THEN IF replace THEN updates[k]
                      ELSE Dedup(existing[k] \o updates[k])
                 ELSE updates[k]
            ELSE existing[k]
    IN [k \in DOMAIN existing \cup keys \cup {"modified"} |->
           IF k = "modified" /\ k \notin keys THEN t ELSE valueOf(k)]

\* PropertyManager.mergeProperties, with `t' the value of new Date()
mergeProperties(existing, updates, replace, t) ==
    LET keys == {k \in DOMAIN updates : ~SkipKey(k)}
        valueOf(k) ==
            IF k \in keys
            THEN IF IsArray(k) /\ k \in DOMAIN existing
                 THEN IF replace THEN updates[k]
                      ELSE Dedup(existing[k] \o updates[k])
                 ELSE IF k = "custom"
                 THEN IF k \in DOMAIN existing
                      THEN [c \in DOMAIN existing[k] \cup DOMAIN updates[k] |->
                               IF c \in DOMAIN updates[k] THEN updates[k][c]
                               ELSE existing[k][c]]
                      ELSE updates[k]
                 ELSE updates[k]
            ELSE existing[k]
    IN [k \in DOMAIN existing \cup keys \cup {"modified"} |->
           IF k = "modified" THEN t ELSE valueOf(k)]

\* updateProperties: the new front matter spliced onto the note's body
SpliceContent(content, properties) ==
    LET newFrontmatter == generateProperties(properties)
    IN NoteContent(newFrontmatter.fm, newFrontmatter.yaml,
                   StripFrontmatter(content))

(***************************************************************************)
(* Tool arguments.  An argument object is a function whose DOMAIN is the   *)
(* set of fields present; `filepath' carries its JavaScript type.          *)
(***************************************************************************)
StrArg(s) == [type |-> "string", val |-> s]
NumArg(s) == [type |-> "number", val |-> s]
BoolArg(s) == [type |-> "boolean", val |-> s]

\* typeof value: a tagged value has its tag, a mapping is an object
typeof(value) ==
    IF DOMAIN value = {"type", "val"} THEN value.type ELSE "object"

\* inputSchema.properties of a registered tool: field -> declared type/format
InputSchemaFields(name) ==
    IF name = UPDATE_PROPERTIES
    THEN {"filepath", "properties", "replace"}
    ELSE {"filepath"}

\* inputSchema.properties[field].type of a registered tool
InputSchemaType(name, field) ==
    CASE field = "filepath" -> "string"
      [] field = "properties" -> "object"
      [] field = "replace" -> "boolean"

\* the fields of a registered tool declared with format: "path"
InputSchemaPaths(name) == {"filepath"}

\* inputSchema.required of a registered tool
InputSchemaRequired(name) ==
    IF name = UPDATE_PROPERTIES THEN {"filepath", "properties"} ELSE {"filepath"}

\* validateFilePath without its path-traversal test
validateFilePathAbsoluteOnly(filepath) ==
    CASE filepath \in {"/abs.md", "C:/abs.md"} ->
             "Invalid file path: Absolute paths not allowed"
      [] OTHER -> "ok"

\* validateFilePath: the error it throws, or "ok"
validateFilePath(filepath) ==
    CASE filepath \in {"../evil.md", "a/../b.md"} ->
             "Invalid file path: Path traversal not allowed"
      [] filepath \in {"/abs.md", "C:/abs.md"} ->
             "Invalid file path: Absolute paths not allowed"
      [] OTHER -> "ok"

\* the type test of validateToolArguments without its boolean branch
TypeViolationStringsOnly(declared, value) ==
    CASE declared = "string" /\ typeof(value) # "string" -> "must be a string"
      [] OTHER -> "ok"

\* the type test of validateToolArguments: the message it pushes, or "ok";
\* there is a branch for string, number, boolean and array and no other
TypeViolation(declared, value) ==
    CASE declared = "string" /\ typeof(value) # "string" -> "must be a string"
      [] declared = "number" /\ typeof(value) # "number" -> "must be a number"
      [] declared = "boolean" /\ typeof(value) # "boolean" ->
             "must be a boolean"
      [] declared = "array" /\ typeof(value) # "array" -> "must be an array"
      [] OTHER -> "ok"

\* validateToolArguments: the set of violations (the errors list)
validateToolArguments(args, name) ==
    LET missing == {<<"Missing required field", f>> :
                       f \in InputSchemaRequired(name) \ DOMAIN args}
        unknown == {<<"Unknown field", f>> :
                       f \in DOMAIN args \ InputSchemaFields(name)}
        declared == DOMAIN args \cap InputSchemaFields(name)
        badType == {<<TypeViolation(InputSchemaType(name, f), args[f]), f>> :
                       f \in {g \in declared :
                                 TypeViolation(InputSchemaType(name, g),
                                               args[g]) # "ok"}}
        badPath == {<<validateFilePath(args[f].val), f>> :
                       f \in {g \in declared \cap InputSchemaPaths(name) :
                                 /\ typeof(args[g]) = "string"
                                 /\ validateFilePath(args[g].val) # "ok"}}
    IN missing \cup unknown \cup badType \cup badPath

(***************************************************************************)
(* The rate limiter (RateLimiter).  requestCounts is a function from the   *)
(* keys that have a window to [count, resetTime].                          *)
(***************************************************************************)
\* the branch of checkRateLimit that starts a new window
WindowExpired(rc, key, t) == key \notin DOMAIN rc \/ t > rc[key].resetTime

\* checkRateLimit comparing with > where the code compares with >=
checkRateLimitOffByOne(rc, key, t) ==
    \/ WindowExpired(rc, key, t)
    \/ ~(rc[key].count > MaxRequests)

\* the answer of checkRateLimit(key) at time t
checkRateLimit(rc, key, t) ==
    \/ WindowExpired(rc, key, t)
    \/ ~(rc[key].count >= MaxRequests)

\* AfterCheck counting the denied calls too
AfterCheckCountingDenied(rc, key, t) ==
    IF WindowExpired(rc, key, t)
    THEN [k \in DOMAIN rc \cup {key} |->
             IF k = key THEN [count |-> 1, resetTime |-> t + WindowMs]
             ELSE rc[k]]
    ELSE [rc EXCEPT ![key].count = @ + 1]

\* AfterCheck moving the resetTime of a live window at every counted call
AfterCheckExtendingWindow(rc, key, t) ==
    IF WindowExpired(rc, key, t)
    THEN [k \in DOMAIN rc \cup {key} |->
             IF k = key THEN [count |-> 1, resetTime |-> t + WindowMs]
             ELSE rc[k]]
    ELSE IF rc[key].count >= MaxRequests
    THEN rc
    ELSE [rc EXCEPT ![key].count = @ + 1, ![key].resetTime = t + WindowMs]

\* requestCounts after checkRateLimit(key) at time t
AfterCheck(rc, key, t) ==
    IF WindowExpired(rc, key, t)
    THEN [k \in DOMAIN rc \cup {key} |->
             IF k = key THEN [count |-> 1, resetTime |-> t + WindowMs]
             ELSE rc[k]]
    ELSE IF rc[key].count >= MaxRequests
    THEN rc
    ELSE [rc EXCEPT ![key].count = @ + 1]

\* cleanup deleting a window already at its resetTime
AfterCleanupAtResetTime(rc, t) ==
    [k \in {j \in DOMAIN rc : ~(t >= rc[j].resetTime)} |-> rc[k]]

\* requestCounts after cleanup() at time t
AfterCleanup(rc, t) ==
    [k \in {j \in DOMAIN rc : ~(t > rc[j].resetTime)} |-> rc[k]]

(***************************************************************************)
(* State of the request pipeline.                                          *)
(***************************************************************************)
VARIABLES
    now,            \* Date.now()
    requestCounts,  \* RateLimiter.requestCounts
    notes,          \* the vault held by the backend: path -> content
    inv,            \* per invocation in progress: the handler closure and the tool
    lastCheck,      \* the latest direct checkRateLimit call and what it left
    callsInWindow,  \* per key: when its window opened, and the calls since
    lastWriteReported \* the caller of the latest updateContent applied got success

\* State of the tag resource (TagResource).
VARIABLES
    tagCache,       \* TagResource.tagCache: tag -> set of file paths
    isInitialized,  \* TagResource.isInitialized
    lastUpdate,     \* TagResource.lastUpdate
    scans,          \* per caller of initializeCache: where its scan stands
    lastAnswer,     \* the latest outcome of a getContent call
    fullIndexes     \* the complete results of the scans that have finished

tagVars == <<tagCache, isInitialized, lastUpdate, scans, lastAnswer, fullIndexes>>

\* A direct call of a PropertyManager method: its arguments and its results.
VARIABLES
    calc

\* The process: its cleanup routines and its exit.
VARIABLES
    proc

\* An invocation occupies a slot while it is unanswered, its tool is still
\* running or its timer is still armed; a slot that is free is taken again.
InvIds == 1..MaxLive

NotePath == "note.md"

\* a front-matter timestamp later than every clock value
FutureStamp == MaxTime + 1

NoContent == NoteContent("none", EmptyProps, "")

\* a response as the caller sees it: content blocks, or a failure with a code
ContentResponse(success, properties) ==
    [kind |-> "content", code |-> 0, success |-> success, properties |-> properties]

ErrorResponse(code) ==
    [kind |-> "error", code |-> code, success |-> FALSE, properties |-> EmptyProps]

NoResponse == [kind |-> "none", code |-> 0, success |-> FALSE, properties |-> EmptyProps]

\* the message of an error: its text and, after the text, the list it joins
Message(text, list) == [text |-> text, list |-> list]

\* new ObsidianError(message, errorCode): a code that does not have five
\* digits is converted
ObsidianError(message, errorCode) ==
    [code |-> IF errorCode < 10000 \/ errorCode > 99999
              THEN (IF errorCode < 1000 THEN errorCode * 100 ELSE 50000)
              ELSE errorCode,
     message |-> message]

\* name, args: the request.            steps: the pipeline states passed through.
\* limited: the rate limiter's answer. timer, deadline: the setTimeout.
\* race: the Promise.race.             hpc: where runTool stands.
\* calls: backend requests issued.     snap: the content getFileContents gave.
\* merged: mergedProperties.           pend: updatedContent sent to the backend.
\* produced: what runTool ended with.  responses: what the caller received.
\* first: which of tool and timer finished first.
\* late: answered after the deadline.  wroteAfter: written after the answer.
\* overwrote: the keys whose values this write replaced or dropped, when it
\*            wrote over content that another invocation wrote, with success
\*            reported to its caller, after this one had read the note.
\* unhandled: its timeoutPromise rejected with nobody awaiting it.
\* raised: the ObsidianErrors constructed for it before its caller was answered.
\* thrown: the ObsidianError its caller's request was rejected with.
FreshInv ==
    [name |-> "", args |-> EmptyProps, steps |-> <<>>,
     limited |-> "none", timer |-> "none", deadline |-> -1, race |-> "none",
     hpc |-> "none", calls |-> 0, snap |-> NoContent, merged |-> EmptyProps,
     pend |-> NoContent, produced |-> NoResponse, responses |-> <<>>,
     first |-> "none", late |-> FALSE, wroteAfter |-> FALSE, overwrote |-> {},
     unhandled |-> FALSE, raised |-> {}, thrown |-> {}]

Free(rec) == rec.hpc \in {"none", "returned"} /\ rec.timer # "armed"

\* The record of an invocation whose tool has returned is kept for the step
\* that ends it; at the next step of the system only its timer remains.
Forget(invs, i) ==
    [j \in InvIds |->
        IF j # i /\ invs[j].hpc \in {"none", "returned"}
        THEN [FreshInv EXCEPT !.timer = invs[j].timer,
                              !.deadline = invs[j].deadline,
                              !.race = invs[j].race]
        ELSE invs[j]]

(***************************************************************************)
(* The inputs of the model.                                                *)
(***************************************************************************)
Props1(k1, v1) == [k \in {k1} |-> v1]
Props3(k1, v1, k2, v2, k3, v3) ==
    [k \in {k1, k2, k3} |-> IF k = k1 THEN v1 ELSE IF k = k2 THEN v2 ELSE v3]
Props4(k1, v1, k2, v2, k3, v3, k4, v4) ==
    [k \in {k1, k2, k3, k4} |->
        IF k = k1 THEN v1 ELSE IF k = k2 THEN v2 ELSE IF k = k3 THEN v3 ELSE v4]

UpdTitle == Props1("title", "t2")
UpdTitleStamped == Props3("title", "t2", "modified", 1, "created", "c9")
UpdTags == Props1("tags", <<"#b">>)
UpdBadStatus == Props1("status", <<"bogus">>)

UpdateArgs(path, update) ==
    [f \in {"filepath", "properties"} |->
        IF f = "filepath" THEN StrArg(path) ELSE update]

FileArgs(path) == [f \in {"filepath"} |-> StrArg(path)]

\* the requests of the pipeline specification
CallInputs ==
    {<<UPDATE_PROPERTIES, UpdateArgs(NotePath, UpdTitle)>>,
     <<UPDATE_PROPERTIES, UpdateArgs("../evil.md", UpdTitle)>>,
     <<GET_FILE_CONTENTS, FileArgs(NotePath)>>,
     <<GET_FILE_CONTENTS, FileArgs("/abs.md")>>,
     <<"obsidian_no_such_tool", FileArgs(NotePath)>>}

\* the requests of the property-update specification
UpdateInputs ==
    {<<UPDATE_PROPERTIES, UpdateArgs(NotePath, u)>> :
        u \in {UpdTitle, UpdTitleStamped, UpdTags, UpdBadStatus}}

TaggedNote ==
    NoteContent("yaml",
        Props4("title", "t1", "created", "c0", "modified", 0, "tags", <<"a">>),
        "body")

FutureNote ==
    NoteContent("yaml",
        Props3("title", "t1", "modified", FutureStamp, "tags", <<"a">>), "body")

InitialNotes == {TaggedNote, FutureNote}

\* notes as a vault holds them: with and without front matter
PlainNote == NoteContent("none", EmptyProps, "body")
EofNote == NoteContent("eof", Props1("title", "t1"), "")
MalformedNote == NoteContent("malformed", EmptyProps, "body")
MalformedEofNote == NoteContent("malformed-eof", EmptyProps, "")
RuleNote == NoteContent("rule", EmptyProps, "rest")

VaultNotes ==
    {TaggedNote, PlainNote, EofNote, MalformedNote, MalformedEofNote, RuleNote}

UpdUnknown == [k \in {"title", "foo"} |-> IF k = "title" THEN "t2" ELSE "x"]

\* the requests of the single-caller specification
NoteInputs ==
    {<<UPDATE_PROPERTIES, UpdateArgs(NotePath, u)>> :
        u \in {UpdTitle, UpdTags, UpdBadStatus, UpdUnknown}}

(***************************************************************************)
(* The tool-calling handler (setupToolCallingHandler).                     *)
(***************************************************************************)
\* Admission consulting the rate limiter before it resolves the tool
AdmissionRateCheckingFirst(rc, name, args, t) ==
    IF ~checkRateLimit(rc, name, t)
    THEN [verdict |-> "RateLimited", rc |-> AfterCheck(rc, name, t),
          limited |-> "denied", timer |-> FALSE,
          steps |-> <<"Received", "Failed">>]
    ELSE IF name \notin toolHandlers
    THEN [verdict |-> "NotFound", rc |-> AfterCheck(rc, name, t),
          limited |-> "allowed", timer |-> FALSE,
          steps |-> <<"Received", "RateChecked", "Failed">>]
    ELSE IF validateToolArguments(args, name) # {}
    THEN [verdict |-> "BadRequest", rc |-> AfterCheck(rc, name, t),
          limited |-> "allowed", timer |-> TRUE,
          steps |-> <<"Received", "RateChecked", "Failed">>]
    ELSE [verdict |-> "Dispatch", rc |-> AfterCheck(rc, name, t),
          limited |-> "allowed", timer |-> TRUE,
          steps |-> <<"Received", "RateChecked", "Validated", "Dispatched">>]

\* Admission whose catch around enforceRateLimit logs the denial and goes on
AdmissionIgnoringDenial(rc, name, args, t) ==
    LET limited == IF checkRateLimit(rc, name, t) THEN "allowed" ELSE "denied"
    IN IF name \notin toolHandlers
       THEN [verdict |-> "NotFound", rc |-> rc, limited |-> "none",
             timer |-> FALSE, steps |-> <<"Received", "Failed">>]
       ELSE IF validateToolArguments(args, name) # {}
       THEN [verdict |-> "BadRequest", rc |-> AfterCheck(rc, name, t),
             limited |-> limited, timer |-> TRUE,
             steps |-> <<"Received", "RateChecked", "Failed">>]
       ELSE [verdict |-> "Dispatch", rc |-> AfterCheck(rc, name, t),
             limited |-> limited, timer |-> TRUE,
             steps |-> <<"Received", "RateChecked", "Validated", "Dispatched">>]

\* Admission validating the arguments before it consults the rate limiter
AdmissionValidatingFirst(rc, name, args, t) ==
    IF name \notin toolHandlers
    THEN [verdict |-> "NotFound", rc |-> rc, limited |-> "none",
          timer |-> FALSE, steps |-> <<"Received", "Failed">>]
    ELSE IF validateToolArguments(args, name) # {}
    THEN [verdict |-> "BadRequest", rc |-> rc, limited |-> "none",
          timer |-> FALSE, steps |-> <<"Received", "Failed">>]
    ELSE IF ~checkRateLimit(rc, name, t)
    THEN [verdict |-> "RateLimited", rc |-> AfterCheck(rc, name, t),
          limited |-> "denied", timer |-> FALSE,
          steps |-> <<"Received", "Validated", "Failed">>]
    ELSE [verdict |-> "Dispatch", rc |-> AfterCheck(rc, name, t),
          limited |-> "allowed", timer |-> TRUE,
          steps |-> <<"Received", "Validated", "RateChecked", "Dispatched">>]

\* The handler from the arrival of the request to the call of runTool:
\* resolve the tool, enforce the rate limit, arm the timeout, validate.
Admission(rc, name, args, t) ==
    IF name \notin toolHandlers
    THEN [verdict |-> "NotFound", rc |-> rc, limited |-> "none",
          timer |-> FALSE, steps |-> <<"Received", "Failed">>]
    ELSE IF ~checkRateLimit(rc, name, t)
    THEN [verdict |-> "RateLimited", rc |-> AfterCheck(rc, name, t),
          limited |-> "denied", timer |-> FALSE,
          steps |-> <<"Received", "Failed">>]
    ELSE IF validateToolArguments(args, name) # {}
    THEN [verdict |-> "BadRequest", rc |-> AfterCheck(rc, name, t),
          limited |-> "allowed", timer |-> TRUE,
          steps |-> <<"Received", "RateChecked", "Failed">>]
    ELSE [verdict |-> "Dispatch", rc |-> AfterCheck(rc, name, t),
          limited |-> "allowed", timer |-> TRUE,
          steps |-> <<"Received", "RateChecked", "Validated", "Dispatched">>]

\* the failure thrown for a verdict that ends the invocation before runTool
VerdictCode(verdict) ==
    CASE verdict = "NotFound" -> NOT_FOUND
      [] verdict = "RateLimited" -> RATE_LIMIT_EXCEEDED
      [] OTHER -> BAD_REQUEST

\* the catch block: what the caller gets for an ObsidianError runTool threw
Normalize(code) ==
    IF code = SUCCESS_NO_CONTENT THEN ContentResponse(TRUE, EmptyProps)
    ELSE ErrorResponse(code)

\* the step a response ends the invocation with
TerminalStep(response) ==
    IF response.kind = "content" THEN "Completed"
    ELSE IF response.code = TIMEOUT THEN "TimedOut" ELSE "Failed"

\* Settle answering the caller with every settlement, not only the first
SettleEvery(rec, response, t) ==
    IF rec.race # "none"
    THEN [rec EXCEPT !.race = "settled",
                     !.responses = Append(@, response),
                     !.steps = Append(@, TerminalStep(response)),
                     !.late = t > rec.deadline]
    ELSE rec

\* Promise.race: the first settlement answers the caller, later ones are dropped
Settle(rec, response, t) ==
    IF rec.race = "pending"
    THEN [rec EXCEPT !.race = "settled",
                     !.responses = Append(@, response),
                     !.steps = Append(@, TerminalStep(response)),
                     !.late = t > rec.deadline]
    ELSE rec

\* runTool ends with `response': its promise settles
Return(rec, response, t) ==
    Settle([rec EXCEPT !.hpc = "returned", !.produced = response,
                       !.first = IF @ = "none" THEN "tool" ELSE @],
           response, t)

\* runTool that asks the backend for the note before it looks at the update
StartToolReadingFirst(rec, t) ==
    [rec EXCEPT !.hpc = "reading", !.calls = @ + 1]

\* runTool up to its first await
StartTool(rec, t) ==
    IF /\ rec.name = UPDATE_PROPERTIES
       /\ validateProperties(rec.args["properties"]) # {}
    THEN Return(rec, ContentResponse(FALSE, EmptyProps), t)
    ELSE [rec EXCEPT !.hpc = "reading", !.calls = @ + 1]

\* TimeoutFires that also aborts the tool: its outstanding request is dropped
TimeoutFiresAborting(rec, t) ==
    Settle([rec EXCEPT !.timer = "fired",
                       !.unhandled = rec.race = "none",
                       !.hpc = IF @ \in {"reading", "writing"} THEN "returned" ELSE @,
                       !.first = IF @ = "none" /\ rec.hpc \in {"reading", "writing"}
                                 THEN "timer" ELSE @],
           ErrorResponse(TIMEOUT), t)

\* setTimeout's callback: the timeoutPromise rejects
TimeoutFires(rec, t) ==
    Settle([rec EXCEPT !.timer = "fired",
                       !.unhandled = rec.race = "none",
                       !.first = IF @ = "none" /\ rec.hpc \in {"reading", "writing"}
                                 THEN "timer" ELSE @],
           ErrorResponse(TIMEOUT), t)

\* updateProperties between getFileContents and updateContent
PrepareUpdate(rec, content, t) ==
    LET replace == IF "replace" \in DOMAIN rec.args THEN rec.args["replace"]
                   ELSE FALSE
        mergedProperties ==
            mergeProperties(parseProperties(content), rec.args["properties"],
                            replace, t)
    IN [rec EXCEPT !.hpc = "writing", !.calls = @ + 1,
                   !.snap = content,
                   !.merged = mergedProperties,
                   !.pend = SpliceContent(content, mergedProperties)]

\* the errors constructed on the way to a verdict, the one thrown last
VerdictErrors(verdict, name, args) ==
    CASE verdict = "NotFound" ->
             <<ObsidianError(Message("Unknown tool: " \o name, {}), NOT_FOUND)>>
      [] verdict = "RateLimited" ->
             <<ObsidianError(Message("Rate limit exceeded for " \o name
                                         \o ". Please try again later.", {}),
                             RateLimiterCode),
               ObsidianError(Message("Rate limit exceeded for tool: " \o name, {}),
                             RATE_LIMIT_EXCEEDED)>>
      [] verdict = "BadRequest" ->
             <<ObsidianError(Message("Invalid tool arguments: ",
                                     validateToolArguments(args, name)),
                             BAD_REQUEST)>>
      [] OTHER -> <<>>

\* the error with which the backend client fails a request
ClientError == ObsidianError(Message("Not Found", {}), NOT_FOUND)

\* the error the timer rejects the timeoutPromise with
TimeoutError ==
    ObsidianError(Message("Tool execution timed out after "
                              \o ToString(ToolTimeoutMs) \o "ms", {}), TIMEOUT)

\* the record `after' a step of the invocation `before' in which `error' was
\* constructed: it is recorded while the caller has no answer yet, and it is
\* what the caller got when the step answered the caller with a failure
Raised(before, after, error) ==
    [after EXCEPT
        !.raised = IF before.responses = <<>> THEN before.raised \cup {error}
                   ELSE before.raised,
        !.thrown = IF /\ Len(after.responses) > Len(before.responses)
                      /\ after.responses[Len(after.responses)].kind = "error"
                   THEN {error} ELSE before.thrown]

\* A request arrives and the handler runs to its first await.
CallTool(i, name, args) ==
    /\ Free(inv[i])
    /\ \A j \in 1..(i - 1) : ~Free(inv[j])
    /\ LET adm == Admission(requestCounts, name, args, now)
           rec0 == [FreshInv EXCEPT
                       !.name = name, !.args = args,
                       !.limited = adm.limited, !.steps = adm.steps,
                       !.timer = IF adm.timer THEN "armed" ELSE "none",
                       !.deadline = IF adm.timer THEN now + ToolTimeoutMs ELSE -1]
           rec1 == IF adm.verdict = "Dispatch"
                   THEN StartTool([rec0 EXCEPT !.race = "pending"], now)
                   ELSE [rec0 EXCEPT
                            !.responses = <<ErrorResponse(VerdictCode(adm.verdict))>>,
                            !.raised = SeqToSet(VerdictErrors(adm.verdict, name, args)),
                            !.thrown = {VerdictErrors(adm.verdict, name, args)[
                                           Len(VerdictErrors(adm.verdict, name, args))]}]
       IN /\ requestCounts' = adm.rc
          /\ inv' = [Forget(inv, i) EXCEPT ![i] = rec1]
    /\ UNCHANGED <<now, notes, lastCheck, callsInWindow, lastWriteReported>>
    /\ UNCHANGED tagVars
    /\ UNCHANGED <<calc, proc>>

\* BackendRead in which updateProperties lets the client's error through
BackendReadRaising(i, ok) ==
    /\ inv[i].hpc = "reading"
    /\ inv' = [Forget(inv, i) EXCEPT ![i] =
          IF ok
          THEN IF @.name = GET_FILE_CONTENTS
               THEN Return(@, ContentResponse(TRUE, EmptyProps), now)
               ELSE PrepareUpdate(@, notes[NotePath], now)
          ELSE Raised(@, Return(@, Normalize(ClientError.code), now), ClientError)]
    /\ UNCHANGED <<now, requestCounts, notes, lastCheck, callsInWindow, lastWriteReported>>
    /\ UNCHANGED tagVars
    /\ UNCHANGED <<calc, proc>>

\* BackendRead that asks the backend again when getFileContents fails
BackendReadRetrying(i, ok) ==
    /\ inv[i].hpc = "reading"
    /\ inv' = [Forget(inv, i) EXCEPT ![i] =
          IF ~ok THEN [@ EXCEPT !.calls = @ + 1]
          ELSE IF @.name = GET_FILE_CONTENTS
          THEN Return(@, ContentResponse(TRUE, EmptyProps), now)
          ELSE PrepareUpdate(@, notes[NotePath], now)]
    /\ UNCHANGED <<now, requestCounts, notes, lastCheck, callsInWindow, lastWriteReported>>
    /\ UNCHANGED tagVars
    /\ UNCHANGED <<calc, proc>>

\* The backend answers a getFileContents and the tool runs to its next await.
BackendRead(i, ok) ==
    /\ inv[i].hpc = "reading"
    /\ inv' = [Forget(inv, i) EXCEPT ![i] =
          IF @.name = GET_FILE_CONTENTS
          THEN IF ok THEN Return(@, ContentResponse(TRUE, EmptyProps), now)
               ELSE Raised(@, Return(@, Normalize(ClientError.code), now), ClientError)
          ELSE IF ok THEN PrepareUpdate(@, notes[NotePath], now)
               ELSE Raised(@, Return(@, ContentResponse(FALSE, EmptyProps), now),
                           ClientError)]
    /\ UNCHANGED <<now, requestCounts, notes, lastCheck, callsInWindow, lastWriteReported>>
    /\ UNCHANGED tagVars
    /\ UNCHANGED <<calc, proc>>

\* the keys of `old' whose values `new' does not hold
LostKeys(old, new) ==
    {k \in DOMAIN old.yaml \ {"modified"} :
        k \notin DOMAIN new.yaml \/ new.yaml[k] # old.yaml[k]}

\* BackendWrite that merges the update into the content the note holds now
BackendWriteRemerging(i, ok) ==
    /\ inv[i].hpc = "writing"
    /\ IF ok
       THEN /\ notes' = [notes EXCEPT ![NotePath] =
                  SpliceContent(@, mergeProperties(parseProperties(@),
                      inv[i].args["properties"], FALSE, inv[i].merged["modified"]))]
            /\ inv' = [Forget(inv, i) EXCEPT ![i] =
                  Return([@ EXCEPT !.wroteAfter = inv[i].responses # <<>>,
                                   !.overwrote =
                                       IF /\ notes[NotePath] # inv[i].snap
                                          /\ lastWriteReported
                                       THEN LostKeys(notes[NotePath], notes'[NotePath])
                                       ELSE {}],
                         ContentResponse(TRUE, inv[i].merged), now)]
            /\ lastWriteReported' =
                  (inv'[i].responses = <<ContentResponse(TRUE, inv[i].merged)>>)
       ELSE /\ UNCHANGED <<notes, lastWriteReported>>
            /\ inv' = [Forget(inv, i) EXCEPT ![i] =
                  Raised(@, Return(@, ContentResponse(FALSE, EmptyProps), now),
                         ClientError)]
    /\ UNCHANGED <<now, requestCounts, lastCheck, callsInWindow>>
    /\ UNCHANGED tagVars
    /\ UNCHANGED <<calc, proc>>

\* The backend answers an updateContent and updateProperties returns.
BackendWrite(i, ok) ==
    /\ inv[i].hpc = "writing"
    /\ IF ok
       THEN /\ notes' = [notes EXCEPT ![NotePath] = inv[i].pend]
            /\ inv' = [Forget(inv, i) EXCEPT ![i] =
                  Return([@ EXCEPT !.wroteAfter = inv[i].responses # <<>>,
                                   !.overwrote =
                                       IF /\ notes[NotePath] # inv[i].snap
                                          /\ lastWriteReported
                                       THEN LostKeys(notes[NotePath], inv[i].pend)
                                       ELSE {}],
                         ContentResponse(TRUE, inv[i].merged), now)]
            /\ lastWriteReported' =
                  (inv'[i].responses = <<ContentResponse(TRUE, inv[i].merged)>>)
       ELSE /\ UNCHANGED <<notes, lastWriteReported>>
            /\ inv' = [Forget(inv, i) EXCEPT ![i] =
                  Raised(@, Return(@, ContentResponse(FALSE, EmptyProps), now),
                         ClientError)]
    /\ UNCHANGED <<now, requestCounts, lastCheck, callsInWindow>>
    /\ UNCHANGED tagVars
    /\ UNCHANGED <<calc, proc>>

\* The timeout of invocation i expires.
TimerFire(i) ==
    /\ inv[i].timer = "armed"
    /\ now >= inv[i].deadline
    /\ inv' = [Forget(inv, i) EXCEPT ![i] =
          Raised(@, TimeoutFires(@, now), TimeoutError)]
    /\ UNCHANGED <<now, requestCounts, notes, lastCheck, callsInWindow, lastWriteReported>>
    /\ UNCHANGED tagVars
    /\ UNCHANGED <<calc, proc>>

\* The periodic sweep of the rate limiter.
Cleanup ==
    /\ AfterCleanup(requestCounts, now) # requestCounts
    /\ requestCounts' = AfterCleanup(requestCounts, now)
    /\ inv' = Forget(inv, 0)
    /\ UNCHANGED <<now, notes, lastCheck, callsInWindow, lastWriteReported>>
    /\ UNCHANGED tagVars
    /\ UNCHANGED <<calc, proc>>

\* Time passes; a timer that is due fires before the clock moves on.
Tick ==
    /\ now < MaxTime
    /\ \A i \in InvIds : inv[i].timer = "armed" => inv[i].deadline > now
    /\ now' = now + 1
    /\ inv' = Forget(inv, 0)
    /\ UNCHANGED <<requestCounts, notes, lastCheck, callsInWindow, lastWriteReported>>
    /\ UNCHANGED tagVars
    /\ UNCHANGED <<calc, proc>>

\* A caller asks the rate limiter directly: checkRateLimit(key).
\* callsInWindow counts the calls of the window by the clock alone.
CheckRateLimit(key) ==
    /\ LET opens == \/ callsInWindow[key].start < 0
                     \/ now > callsInWindow[key].start + WindowMs
           after == AfterCheck(requestCounts, key, now)
       IN /\ opens \/ callsInWindow[key].calls < MaxCalls
          /\ requestCounts' = after
          /\ lastCheck' = [key |-> key, at |-> now, opened |-> opens,
                           allowed |-> checkRateLimit(requestCounts, key, now),
                           count |-> after[key].count,
                           resetTime |-> after[key].resetTime]
          /\ callsInWindow' = [callsInWindow EXCEPT ![key] =
                IF opens THEN [start |-> now, calls |-> 1]
                ELSE [@ EXCEPT !.calls = @ + 1]]
    /\ UNCHANGED <<now, notes, inv, lastWriteReported>>
    /\ UNCHANGED tagVars
    /\ UNCHANGED <<calc, proc>>

(***************************************************************************)
(* The tag resource (TagResource).  The constructor starts a scan without  *)
(* awaiting it; every getContent call that finds the cache uninitialized   *)
(* or stale runs a scan of its own.  All scans work on the one tagCache.   *)
(***************************************************************************)
\* 0 is the constructor's call of initializeCache, the others are readers
Scanners == 0..MaxReaders

Readers == 1..MaxReaders

\* what searchJson returns for the glob over *.md, in its order
VaultFiles == <<"a.md", "b.md">>

\* what getFileContents returns for a file of the vault
VaultContent(filename) ==
    IF filename = "a.md"
    THEN NoteContent("yaml", Props1("tags", <<"#a", "b">>), "A")
    ELSE NoteContent("yaml", Props1("tags", <<"b">>), "B")

EmptyIndex == [tag \in {} |-> {}]

\* TagResource.addTag
addTag(cache, tag, filepath) ==
    [name \in DOMAIN cache \cup {tag} |->
        IF name = tag
        THEN (IF name \in DOMAIN cache THEN cache[name] ELSE {}) \cup {filepath}
        ELSE cache[name]]

\* properties.tags.forEach(tag => this.addTag(tag, result.filename))
RECURSIVE AddTags(_, _, _)
AddTags(cache, tags, filepath) ==
    IF tags = <<>> THEN cache
    ELSE AddTags(addTag(cache, Head(tags), filepath), Tail(tags), filepath)

\* the tags initializeCache takes from a file's content
FileTags(content) ==
    LET properties == parseProperties(content)
    IN IF "tags" \in DOMAIN properties THEN properties["tags"] ELSE <<>>

\* the order of a.name.localeCompare(b.name) on the tag names of the model
NameOrder == <<"a", "b", "c">>

NameRank(name) == CHOOSE n \in DOMAIN NameOrder : NameOrder[n] = name

\* Array.from(files).sort()
SortedFiles(files) == SelectSeq(VaultFiles, LAMBDA filename : filename \in files)

\* the entries of the response: by count descending, then by name
TagEntries(cache) ==
    LET names == DOMAIN cache
        count(name) == Cardinality(cache[name])
        Comes(x, y) ==
            \/ count(x) > count(y)
            \/ count(x) = count(y) /\ NameRank(x) < NameRank(y)
        order == CHOOSE s \in [1..Cardinality(names) -> names] :
                     \A m, n \in DOMAIN s : m < n => Comes(s[m], s[n])
    IN [n \in DOMAIN order |->
           [name |-> order[n], count |-> count(order[n]),
            files |-> SortedFiles(cache[order[n]])]]

RECURSIVE SumCounts(_)
SumCounts(entries) ==
    IF entries = <<>> THEN 0 ELSE Head(entries).count + SumCounts(Tail(entries))

\* the TagResponse built by getContent
TagResponse(cache, updated) ==
    [tags |-> TagEntries(cache),
     totalOccurrences |-> SumCounts(TagEntries(cache)),
     uniqueTags |-> Cardinality(DOMAIN cache),
     scannedFiles |-> Cardinality(UNION {cache[name] : name \in DOMAIN cache}),
     lastUpdate |-> updated]

\* pc: where the call of initializeCache stands.  k: the result being fetched.
\* found: what getContent found when it was called.
\* own: the index of the files this scan has processed.
IdleScan == [pc |-> "idle", k |-> 0, found |-> "none", own |-> EmptyIndex]

NoAnswer ==
    [kind |-> "none", response |-> TagResponse(EmptyIndex, 0),
     at |-> 0, found |-> "none", processed |-> 0]

\* updateCacheIfNeeded's test
Stale(updated, t) == t - updated > UpdateIntervalMs

\* initializeCache from `this.isInitialized = true' to its return, and the
\* rest of getContent when a reader awaited it
FinishScan(p, cache, own) ==
    /\ isInitialized' = TRUE
    /\ lastUpdate' = now
    /\ fullIndexes' = fullIndexes \cup {own}
    /\ IF p = 0
       THEN /\ scans' = [scans EXCEPT ![p] = [IdleScan EXCEPT !.pc = "done"]]
            /\ UNCHANGED lastAnswer
       ELSE /\ scans' = [scans EXCEPT ![p] = IdleScan]
            /\ lastAnswer' = [kind |-> "tags",
                              response |-> TagResponse(cache, now), at |-> now,
                              found |-> scans[p].found,
                              processed |-> Len(VaultFiles)]

\* getContent answering from a stale cache without refreshing it first
GetContentNotAwaiting(r) ==
    /\ scans[r].pc = "idle"
    /\ \A q \in 1..(r - 1) : scans[q].pc # "idle"
    /\ IF ~isInitialized
       THEN /\ scans' = [scans EXCEPT ![r] =
                  [IdleScan EXCEPT !.pc = "search", !.found = "uninitialized"]]
            /\ UNCHANGED lastAnswer
       ELSE /\ UNCHANGED scans
            /\ lastAnswer' = [kind |-> "tags",
                              response |-> TagResponse(tagCache, lastUpdate),
                              at |-> now,
                              found |-> IF Stale(lastUpdate, now) THEN "stale"
                                        ELSE "fresh",
                              processed |-> 0]
    /\ UNCHANGED <<tagCache, isInitialized, lastUpdate, fullIndexes>>
    /\ UNCHANGED <<now, requestCounts, notes, inv, lastCheck, callsInWindow,
                   lastWriteReported, calc, proc>>

\* A reader calls getContent, which runs to its first await on the backend
\* or, with a fresh cache, to its return.  The call takes the first reader
\* that has no call in progress.
GetContent(r) ==
    /\ scans[r].pc = "idle"
    /\ \A q \in 1..(r - 1) : scans[q].pc # "idle"
    /\ IF ~isInitialized
       THEN /\ scans' = [scans EXCEPT ![r] =
                  [IdleScan EXCEPT !.pc = "search", !.found = "uninitialized"]]
            /\ UNCHANGED lastAnswer
       ELSE IF Stale(lastUpdate, now)
       THEN /\ scans' = [scans EXCEPT ![r] =
                  [IdleScan EXCEPT !.pc = "search", !.found = "stale"]]
            /\ UNCHANGED lastAnswer
       ELSE /\ UNCHANGED scans
            /\ lastAnswer' = [kind |-> "tags",
                              response |-> TagResponse(tagCache, lastUpdate),
                              at |-> now, found |-> "fresh", processed |-> 0]
    /\ UNCHANGED <<tagCache, isInitialized, lastUpdate, fullIndexes>>
    /\ UNCHANGED <<now, requestCounts, notes, inv, lastCheck, callsInWindow,
                   lastWriteReported, calc, proc>>

\* The backend answers the searchJson of scan p: on success the cache is
\* cleared and the first file is requested; on failure initializeCache throws.
SearchReply(p, ok) ==
    /\ scans[p].pc = "search"
    /\ IF ok
       THEN IF VaultFiles = <<>>
            THEN /\ tagCache' = EmptyIndex
                 /\ FinishScan(p, EmptyIndex, EmptyIndex)
            ELSE /\ tagCache' = EmptyIndex
                 /\ scans' = [scans EXCEPT ![p].pc = "fetch", ![p].k = 1]
                 /\ UNCHANGED <<isInitialized, lastUpdate, lastAnswer, fullIndexes>>
       ELSE /\ scans' = [scans EXCEPT ![p] =
                  IF p = 0 THEN [IdleScan EXCEPT !.pc = "failed"] ELSE IdleScan]
            /\ lastAnswer' =
                  IF p = 0 THEN lastAnswer
                  ELSE [NoAnswer EXCEPT !.kind = "error", !.at = now,
                                        !.found = scans[p].found]
            /\ UNCHANGED <<tagCache, isInitialized, lastUpdate, fullIndexes>>
    /\ UNCHANGED <<now, requestCounts, notes, inv, lastCheck, callsInWindow,
                   lastWriteReported, calc, proc>>

\* The backend answers the getFileContents of scan p: the file's tags are
\* added, or the file is skipped; then the next file, or the end of the scan.
FetchReply(p, ok) ==
    /\ scans[p].pc = "fetch"
    /\ LET filename == VaultFiles[scans[p].k]
           tags == FileTags(VaultContent(filename))
           cache == IF ok THEN AddTags(tagCache, tags, filename) ELSE tagCache
           own == IF ok THEN AddTags(scans[p].own, tags, filename) ELSE scans[p].own
       IN /\ tagCache' = cache
          /\ IF scans[p].k < Len(VaultFiles)
             THEN /\ scans' = [scans EXCEPT ![p].k = @ + 1, ![p].own = own]
                  /\ UNCHANGED <<isInitialized, lastUpdate, lastAnswer, fullIndexes>>
             ELSE FinishScan(p, cache, own)
    /\ UNCHANGED <<now, requestCounts, notes, inv, lastCheck, callsInWindow,
                   lastWriteReported, calc, proc>>

(***************************************************************************)
(* Direct calls of the PropertyManager's methods.  A call starts from the  *)
(* arguments held in calc and stores what the method returns.              *)
(***************************************************************************)
Props2(k1, v1, k2, v2) == [k \in {k1, k2} |-> IF k = k1 THEN v1 ELSE v2]

\* property mappings as a note's front matter holds them
ExistingInputs ==
    {EmptyProps,
     Props1("tags", <<"a", "b">>),
     Props1("tags", <<"a", "a">>),
     Props3("title", "t1", "tags", <<"a", "b">>, "modified", 0),
     Props2("title", "t1", "created", "c0"),
     Props2("status", <<"draft">>, "custom", Props1("p", "1")),
     Props2("title", "t1", "tags", <<"#a", "b">>)}

\* property mappings as a caller sends them
UpdateProps ==
    {EmptyProps,
     Props1("title", "t1"),
     Props1("tags", <<"b", "c">>),
     Props1("tags", <<"c", "c">>),
     Props1("title", "t2"),
     Props2("status", <<"draft", "bogus">>, "repository", "not a url"),
     Props2("custom", Props1("q", "2"), "urls", <<"https://x.org", "x y">>),
     Props2("title", "t2", "foo", "x"),
     UpdTitleStamped}

NoCalc ==
    [op |-> "none", existing |-> EmptyProps, updates |-> EmptyProps,
     replace |-> FALSE, merged |-> EmptyProps, again |-> EmptyProps,
     errors |-> {}, block |-> NoContent, generated |-> NoContent]

CalcInputs ==
    {[NoCalc EXCEPT !.op = "input", !.existing = e, !.updates = u, !.replace = r] :
        e \in ExistingInputs, u \in UpdateProps, r \in BOOLEAN}

\* mergeProperties(existing, updates, replace)
Merge ==
    /\ calc.op = "input"
    /\ calc' = [calc EXCEPT !.op = "merged",
                   !.merged = mergeProperties(calc.existing, calc.updates,
                                              calc.replace, now)]
    /\ UNCHANGED <<now, requestCounts, notes, inv, lastCheck, callsInWindow,
                   lastWriteReported>>
    /\ UNCHANGED tagVars
    /\ UNCHANGED proc

\* mergeProperties(merged, updates, replace): the same update applied again
MergeAgain ==
    /\ calc.op = "merged"
    /\ calc' = [calc EXCEPT !.op = "again",
                   !.again = mergeProperties(calc.merged, calc.updates,
                                             calc.replace, now)]
    /\ UNCHANGED <<now, requestCounts, notes, inv, lastCheck, callsInWindow,
                   lastWriteReported>>
    /\ UNCHANGED tagVars
    /\ UNCHANGED proc

\* validateProperties(updates)
Validate ==
    /\ calc.op = "input"
    /\ calc' = [calc EXCEPT !.op = "validated",
                   !.errors = validateProperties(calc.updates)]
    /\ UNCHANGED <<now, requestCounts, notes, inv, lastCheck, callsInWindow,
                   lastWriteReported>>
    /\ UNCHANGED tagVars
    /\ UNCHANGED proc

\* generateProperties(parseProperties(X)) for the block X holding `existing'
RoundTrip ==
    /\ calc.op = "input"
    /\ LET X == NoteContent("yaml", calc.existing, "")
       IN calc' = [calc EXCEPT !.op = "roundtrip", !.block = X,
                      !.generated = generateProperties(parseProperties(X))]
    /\ UNCHANGED <<now, requestCounts, notes, inv, lastCheck, callsInWindow,
                   lastWriteReported>>
    /\ UNCHANGED tagVars
    /\ UNCHANGED proc

(***************************************************************************)
(* Direct calls of validateToolArguments.  An argument object is chosen    *)
(* field by field: each field is absent or holds one of a few values.      *)
(***************************************************************************)
\* the argument objects a caller may send: each field is absent or holds one
\* of a few values
ArgInputs ==
    LET ArgFields == {"filepath", "properties", "replace", "extra"}
        ArgChoices(field) ==
            CASE field = "filepath" ->
                     {"absent", "relative", "traversal", "number"}
              [] field = "properties" -> {"absent", "mapping", "string"}
              [] field = "replace" -> {"absent", "boolean", "string"}
              [] field = "extra" -> {"absent", "string"}
        ArgValue(field, choice) ==
            CASE choice = "relative" -> StrArg(NotePath)
              [] choice = "traversal" -> StrArg("../evil.md")
              [] choice = "number" -> NumArg("7")
              [] choice = "mapping" -> UpdTitle
              [] choice = "boolean" -> BoolArg("true")
              [] choice = "string" -> StrArg("abc")
        ArgObject(c) ==
            [f \in {g \in ArgFields : c[g] # "absent"} |-> ArgValue(f, c[f])]
    IN {[op |-> "args", name |-> UPDATE_PROPERTIES, args |-> ArgObject(c),
         errors |-> {}] :
           c \in {d \in [ArgFields -> {"absent", "relative", "traversal",
                                       "number", "mapping", "boolean",
                                       "string"}] :
                     \A f \in ArgFields : d[f] \in ArgChoices(f)}}

\* validateToolArguments(args, handler.getToolDescription().inputSchema)
ValidateArguments ==
    /\ calc.op = "args"
    /\ calc' = [calc EXCEPT !.op = "argsValidated",
                   !.errors = validateToolArguments(calc.args, calc.name)]
    /\ UNCHANGED <<now, requestCounts, notes, inv, lastCheck, callsInWindow,
                   lastWriteReported>>
    /\ UNCHANGED tagVars
    /\ UNCHANGED proc

(***************************************************************************)
(* The token counter (TokenCounter).  A text is the sequence of the tokens *)
(* the tokenizer encodes it to; a text's tokens are numbered from 1, the   *)
(* notice's tokens are negative.                                           *)
(***************************************************************************)
\* tokenizer.encode(TRUNCATION_MESSAGE)
TRUNCATION_MESSAGE == <<-1, -2>>

\* tokens.slice(0, end): a negative end counts from the end of the array
Slice(tokens, end) ==
    LET last == IF end < 0 THEN Len(tokens) + end ELSE end
    IN SubSeq(tokens, 1, IF last > Len(tokens) THEN Len(tokens) ELSE last)

\* truncateToTokenLimit(text, limit), on the tokens of the text
truncateToTokenLimit(tokens, limit) ==
    IF Len(tokens) <= limit THEN tokens
    ELSE LET availableTokens == limit - Len(TRUNCATION_MESSAGE)
         IN Slice(tokens, availableTokens) \o TRUNCATION_MESSAGE

\* the texts a tool hands to createResponse, and the ceilings MAX_TOKENS can
\* be set to
TokenInputs ==
    {[op |-> "text", tokens |-> [n \in 1..len |-> n], limit |-> limit,
      result |-> <<>>] :
        len \in 0..MaxTextTokens, limit \in 0..MaxTokenLimit}

\* createResponse: tokenCounter.truncateToTokenLimit(text)
Truncate ==
    /\ calc.op = "text"
    /\ calc' = [calc EXCEPT !.op = "truncated",
                   !.result = truncateToTokenLimit(calc.tokens, calc.limit)]
    /\ UNCHANGED <<now, requestCounts, notes, inv, lastCheck, callsInWindow,
                   lastWriteReported>>
    /\ UNCHANGED tagVars
    /\ UNCHANGED proc

(***************************************************************************)
(* Shutdown (setupShutdownHandling).  Every delivered signal starts a run  *)
(* of the cleanup routine; a run stands at an await on a cleanup handler   *)
(* or on server.close().                                                   *)
(***************************************************************************)
Signals == 1..MaxSignals

\* handlers: cleanupHandlers.length.     exitCode: of process.exit, -1 before.
\* runs: where each cleanup run stands.  settled: the handlers awaited.
\* threw: the handlers that threw.       disposed: clearInterval was called.
\* closeCalls: calls of server.close().  closed: a server.close() resolved.
Running(handlers) ==
    [handlers |-> handlers, exitCode |-> -1,
     runs |-> [s \in Signals |-> [pc |-> "idle", k |-> 0]],
     settled |-> {}, threw |-> {}, disposed |-> FALSE, closeCalls |-> 0,
     closed |-> FALSE]

\* cleanup after its handler loop: rateLimiter.dispose(), then server.close()
\* is called and awaited
AfterHandlers(p, s) ==
    [p EXCEPT !.disposed = TRUE, !.closeCalls = @ + 1,
              !.runs[s] = [pc |-> "closing", k |-> 0]]

\* A signal is delivered: cleanup(signal) runs to its first await.
Signal(s) ==
    /\ proc.exitCode = -1
    /\ proc.runs[s].pc = "idle"
    /\ \A r \in 1..(s - 1) : proc.runs[r].pc # "idle"
    /\ proc' = IF proc.handlers = 0 THEN AfterHandlers(proc, s)
               ELSE [proc EXCEPT !.runs[s] = [pc |-> "handler", k |-> 1]]
    /\ UNCHANGED <<now, requestCounts, notes, inv, lastCheck, callsInWindow,
                   lastWriteReported, calc>>
    /\ UNCHANGED tagVars

\* HandlerSettles in which a handler that throws ends the cleanup run
HandlerSettlesAborting(s, ok) ==
    /\ proc.exitCode = -1
    /\ proc.runs[s].pc = "handler"
    /\ LET k == proc.runs[s].k
           p == [proc EXCEPT !.settled = @ \cup {k},
                             !.threw = IF ok THEN @ ELSE @ \cup {k}]
       IN proc' = IF ~ok THEN [p EXCEPT !.exitCode = 1, !.runs[s].pc = "done"]
                  ELSE IF k < proc.handlers
                  THEN [p EXCEPT !.runs[s].k = k + 1]
                  ELSE AfterHandlers(p, s)
    /\ UNCHANGED <<now, requestCounts, notes, inv, lastCheck, callsInWindow,
                   lastWriteReported, calc>>
    /\ UNCHANGED tagVars

\* The handler a cleanup run awaits returns or throws: the run goes on to the
\* next handler or, after the last, to dispose and server.close().
HandlerSettles(s, ok) ==
    /\ proc.exitCode = -1
    /\ proc.runs[s].pc = "handler"
    /\ LET k == proc.runs[s].k
           p == [proc EXCEPT !.settled = @ \cup {k},
                             !.threw = IF ok THEN @ ELSE @ \cup {k}]
       IN proc' = IF k < proc.handlers
                  THEN [p EXCEPT !.runs[s].k = k + 1]
                  ELSE AfterHandlers(p, s)
    /\ UNCHANGED <<now, requestCounts, notes, inv, lastCheck, callsInWindow,
                   lastWriteReported, calc>>
    /\ UNCHANGED tagVars

\* The server.close() a cleanup run awaits resolves or rejects: process.exit.
CloseSettles(s, ok) ==
    /\ proc.exitCode = -1
    /\ proc.runs[s].pc = "closing"
    /\ proc' = [proc EXCEPT !.closed = @ \/ ok,
                            !.exitCode = IF ok THEN 0 ELSE 1,
                            !.runs[s].pc = "done"]
    /\ UNCHANGED <<now, requestCounts, notes, inv, lastCheck, callsInWindow,
                   lastWriteReported, calc>>
    /\ UNCHANGED tagVars

NoCheck ==
    [key |-> "", at |-> -1, opened |-> FALSE, allowed |-> TRUE, count |-> 0,
     resetTime |-> 0]

vars ==
    <<now, requestCounts, notes, inv, lastCheck, callsInWindow, lastWriteReported,
      tagCache, isInitialized, lastUpdate, scans, lastAnswer, fullIndexes, calc,
      proc>>

InitProcess(contents, calls, procs) ==
    /\ now = 0
    /\ requestCounts = [k \in {} |-> [count |-> 0, resetTime |-> 0]]
    /\ notes \in [{NotePath} -> contents]
    /\ inv = [i \in InvIds |-> FreshInv]
    /\ lastCheck = NoCheck
    /\ callsInWindow = [k \in toolHandlers |-> [start |-> -1, calls |-> 0]]
    /\ lastWriteReported = FALSE
    /\ tagCache = EmptyIndex
    /\ isInitialized = FALSE
    /\ lastUpdate = 0
    /\ scans = [p \in Scanners |->
                   IF p = 0 THEN [IdleScan EXCEPT !.pc = "search",
                                                  !.found = "construction"]
                   ELSE IdleScan]
    /\ lastAnswer = NoAnswer
    /\ fullIndexes = {}
    /\ calc \in calls
    /\ proc \in procs

\* the program passes no cleanup handler to setupShutdownHandling
InitState(contents, calls) == InitProcess(contents, calls, {Running(0)})

InitWith(contents) == InitState(contents, {NoCalc})

Init == InitWith({TaggedNote})

Next ==
    \/ \E i \in InvIds, c \in CallInputs : CallTool(i, c[1], c[2])
    \/ \E i \in InvIds, ok \in BOOLEAN : BackendRead(i, ok)
    \/ \E i \in InvIds, ok \in BOOLEAN : BackendWrite(i, ok)
    \/ \E i \in InvIds : TimerFire(i)
    \/ Cleanup
    \/ Tick

Spec == Init /\ [][Next]_vars

\* The property-update specification: update_properties requests only.
InitUpdate == InitWith(InitialNotes)

NextUpdate ==
    \/ \E i \in InvIds, c \in UpdateInputs : CallTool(i, c[1], c[2])
    \/ \E i \in InvIds, ok \in BOOLEAN : BackendRead(i, ok)
    \/ \E i \in InvIds, ok \in BOOLEAN : BackendWrite(i, ok)
    \/ \E i \in InvIds : TimerFire(i)
    \/ Cleanup
    \/ Tick

SpecUpdate == InitUpdate /\ [][NextUpdate]_vars

\* The rate limiter on its own: direct calls, the sweep and the clock.
NextLimiter ==
    \/ \E key \in toolHandlers : CheckRateLimit(key)
    \/ Cleanup
    \/ Tick

SpecLimiter == Init /\ [][NextLimiter]_vars

\* The tag resource on its own: readers, backend replies and the clock.
NextTags ==
    \/ \E r \in Readers : GetContent(r)
    \/ \E p \in Scanners, ok \in BOOLEAN : SearchReply(p, ok)
    \/ \E p \in Scanners, ok \in BOOLEAN : FetchReply(p, ok)
    \/ Tick

SpecTags == Init /\ [][NextTags]_vars

\* One caller updating one note of the vault, a call at a time.
InitNotes == InitState(VaultNotes, {NoCalc})

NextNotes ==
    \/ \E c \in NoteInputs : CallTool(1, c[1], c[2])
    \/ \E ok \in BOOLEAN : BackendRead(1, ok)
    \/ \E ok \in BOOLEAN : BackendWrite(1, ok)
    \/ TimerFire(1)
    \/ Cleanup
    \/ Tick

SpecNotes == InitNotes /\ [][NextNotes]_vars

\* The property manager's methods called directly on the inputs drawn by Init.
InitProps == InitState({TaggedNote}, CalcInputs)

NextProps ==
    \/ Merge
    \/ MergeAgain
    \/ Validate
    \/ RoundTrip
    \/ Tick

SpecProps == InitProps /\ [][NextProps]_vars

\* validateToolArguments called directly on the argument objects drawn by Init.
InitArgs == InitState({TaggedNote}, ArgInputs)

NextArgs ==
    \/ ValidateArguments
    \/ Tick

SpecArgs == InitArgs /\ [][NextArgs]_vars

\* truncateToTokenLimit called directly on the texts and ceilings drawn by Init.
InitTokens == InitState({TaggedNote}, TokenInputs)

NextTokens ==
    \/ Truncate
    \/ Tick

SpecTokens == InitTokens /\ [][NextTokens]_vars

\* The process from its start to its exit, for every number of handlers.
InitShutdown ==
    InitProcess({TaggedNote}, {NoCalc}, {Running(n) : n \in 0..MaxHandlers})

NextShutdown ==
    \/ \E s \in Signals : Signal(s)
    \/ \E s \in Signals, ok \in BOOLEAN : HandlerSettles(s, ok)
    \/ \E s \in Signals, ok \in BOOLEAN : CloseSettles(s, ok)
    \/ Tick

SpecShutdown == InitShutdown /\ [][NextShutdown]_vars

(***************************************************************************)
(* C1.  Within one window the first MaxRequests calls of a key are allowed *)
(* and every later one is denied; the first call after resetTime has       *)
(* passed is allowed and leaves count = 1 and resetTime = now + windowMs.  *)
(***************************************************************************)
RateLimitBoundary ==
    lastCheck.key # "" =>
        /\ lastCheck.allowed = (callsInWindow[lastCheck.key].calls <= MaxRequests)
        /\ lastCheck.opened =>
              /\ lastCheck.allowed
              /\ lastCheck.count = 1
              /\ lastCheck.resetTime = lastCheck.at + WindowMs

\* one key was denied its (MaxRequests + 1)-th call of a window while the
\* other key, after its first window had passed, opened a new one
RateLimitBoundaryWitness ==
    /\ lastCheck.key = UPDATE_PROPERTIES
    /\ ~lastCheck.allowed
    /\ callsInWindow[UPDATE_PROPERTIES].calls = MaxRequests + 1
    /\ callsInWindow[GET_FILE_CONTENTS].start > WindowMs
    /\ GET_FILE_CONTENTS \in DOMAIN requestCounts
    /\ requestCounts[GET_FILE_CONTENTS] = [count |-> 1, resetTime |-> now + WindowMs]

(***************************************************************************)
(* C2.  An invocation the rate limiter denies fails with RateLimitExceeded *)
(* and is never dispatched: runTool is not started for it and no backend   *)
(* request is issued on its behalf.                                        *)
(***************************************************************************)
DeniedNeverDispatched ==
    \A i \in InvIds :
        inv[i].limited = "denied" =>
            /\ inv[i].responses = <<ErrorResponse(RATE_LIMIT_EXCEEDED)>>
            /\ inv[i].hpc = "none"
            /\ inv[i].calls = 0
            /\ "Dispatched" \notin SeqToSet(inv[i].steps)

\* a valid update_properties request was denied by the rate limiter
DeniedNeverDispatchedWitness ==
    \E i \in InvIds :
        /\ inv[i].limited = "denied"
        /\ inv[i].name = UPDATE_PROPERTIES
        /\ validateToolArguments(inv[i].args, inv[i].name) = {}
        /\ requestCounts[UPDATE_PROPERTIES].count = MaxRequests

(***************************************************************************)
(* C3 as stated.  Every invocation passes Received, Validated,             *)
(* RateChecked, Dispatched and one terminal state in that order:           *)
(* validation comes before the rate check, so an invocation rejected by    *)
(* validation has not reached the rate limiter.                            *)
(***************************************************************************)
Before(steps, a, b) ==
    \A m, n \in DOMAIN steps : steps[m] = a /\ steps[n] = b => m < n

ValidatedBeforeRateChecked ==
    \A i \in InvIds :
        /\ Before(inv[i].steps, "Validated", "RateChecked")
        /\ inv[i].responses = <<ErrorResponse(BAD_REQUEST)>> =>
              /\ "RateChecked" \notin SeqToSet(inv[i].steps)
              /\ inv[i].limited = "none"

(***************************************************************************)
(* C3 as amended.  Every invocation passes Received, RateChecked,          *)
(* Validated, Dispatched in that order and ends in at most one of          *)
(* Completed, TimedOut, Failed; one that fails a step goes from that step  *)
(* to Failed; it is answered exactly when it has its terminal state; and   *)
(* an invocation rejected by validation has been through the rate check.   *)
(***************************************************************************)
PipelineOrder == <<"Received", "RateChecked", "Validated", "Dispatched">>

TerminalSteps == {"Completed", "TimedOut", "Failed"}

RateCheckedBeforeValidated ==
    \A i \in InvIds :
        LET steps == inv[i].steps
        IN /\ \/ steps = <<>>
              \/ steps = PipelineOrder
              \/ \E term \in TerminalSteps : steps = Append(PipelineOrder, term)
              \/ \E k \in 1..2 : steps = Append(SubSeq(PipelineOrder, 1, k), "Failed")
           /\ Len(inv[i].responses) =
                 Cardinality({n \in DOMAIN steps : steps[n] \in TerminalSteps})
           /\ inv[i].responses = <<ErrorResponse(BAD_REQUEST)>> =>
                 /\ steps = <<"Received", "RateChecked", "Failed">>
                 /\ inv[i].limited = "allowed"
                 /\ inv[i].name \in DOMAIN requestCounts

\* a request with a path-traversal argument was rejected after it was counted
RateCheckedBeforeValidatedWitness ==
    \E i \in InvIds :
        /\ inv[i].responses = <<ErrorResponse(BAD_REQUEST)>>
        /\ inv[i].args["filepath"].val = "../evil.md"
        /\ requestCounts[inv[i].name].count = MaxRequests
        /\ \E j \in InvIds : inv[j].steps = Append(PipelineOrder, "TimedOut")

(***************************************************************************)
(* C4.  For a dispatched invocation: if runTool has not ended when the     *)
(* timer fires the caller receives Timeout; if runTool ends first the      *)
(* caller receives what runTool ended with; the caller receives at most    *)
(* one response, and none after the deadline.                              *)
(***************************************************************************)
TimeoutRace ==
    \A i \in InvIds :
        /\ Len(inv[i].responses) <= 1
        /\ inv[i].first = "timer" => inv[i].responses = <<ErrorResponse(TIMEOUT)>>
        /\ inv[i].first = "tool" => inv[i].responses = <<inv[i].produced>>
        /\ ~inv[i].late
        /\ inv[i].race = "pending" => now <= inv[i].deadline

\* the timer won one race, and in the other the tool ended at the deadline
TimeoutRaceWitness ==
    \E i, j \in InvIds :
        /\ inv[i].first = "timer"
        /\ inv[i].hpc = "writing"
        /\ inv[j].first = "tool"
        /\ inv[j].produced.kind = "content"
        /\ inv[j].timer = "armed"
        /\ inv[j].deadline = now

(***************************************************************************)
(* C5.  A timeout does not cancel the handler: the step that answers       *)
(* Timeout leaves runTool where it stands with its backend request         *)
(* outstanding, and an updateContent that succeeds after the Timeout       *)
(* response replaces the note's content.                                   *)
(***************************************************************************)
TimeoutDoesNotCancel ==
    [][\A i \in InvIds :
          /\ (inv[i].timer = "armed" /\ inv'[i].timer = "fired") =>
                /\ inv'[i].hpc = inv[i].hpc
                /\ inv'[i].calls = inv[i].calls
                /\ inv'[i].pend = inv[i].pend
                /\ notes' = notes
          /\ (/\ inv[i].responses = <<ErrorResponse(TIMEOUT)>>
              /\ inv[i].hpc = "writing"
              /\ inv'[i].hpc = "returned"
              /\ inv'[i].produced.success) =>
                /\ notes'[NotePath] = inv[i].pend
                /\ inv'[i].responses = <<ErrorResponse(TIMEOUT)>>]_vars

\* the note was changed by an invocation already answered with Timeout
TimeoutDoesNotCancelWitness ==
    \E i \in InvIds :
        /\ inv[i].responses = <<ErrorResponse(TIMEOUT)>>
        /\ inv[i].wroteAfter
        /\ notes[NotePath] = inv[i].pend
        /\ notes[NotePath] # inv[i].snap

(***************************************************************************)
(* C6.  Overlapping update_properties invocations on one note race with    *)
(* last writer wins: a successful updateContent leaves the note holding    *)
(* exactly the writer's merge of the content the writer read, whatever     *)
(* another invocation wrote in between, and the writer reports success.    *)
(***************************************************************************)
LastWriterWins ==
    \A i \in InvIds :
        (inv[i].hpc = "returned" /\ inv[i].produced.success) =>
            /\ notes[NotePath] =
                  SpliceContent(inv[i].snap,
                      mergeProperties(parseProperties(inv[i].snap),
                          inv[i].args["properties"], FALSE,
                          inv[i].merged["modified"]))
            /\ inv[i].produced = ContentResponse(TRUE, notes[NotePath].yaml)
            /\ inv[i].race = "settled"

\* the tags update overwrote the title another invocation had written, and
\* both were answered with success
LastWriterWinsWitness ==
    \E i \in InvIds :
        /\ inv[i].responses = <<ContentResponse(TRUE, inv[i].merged)>>
        /\ inv[i].args["properties"] = UpdTags
        /\ "title" \in inv[i].overwrote
        /\ notes[NotePath].yaml["title"] = "t1"
        /\ notes[NotePath].yaml["tags"] = <<"a", "#b">>

(***************************************************************************)
(* C9.  The result of update_properties does not depend on a modified or   *)
(* created value the caller supplies: the call is accepted as the call     *)
(* without them is and writes the same content, with modified taken from   *)
(* the clock and created left as it was in the note.                       *)
(***************************************************************************)
WithoutStamps(properties) ==
    [k \in DOMAIN properties \ {"modified", "created"} |-> properties[k]]

UpdateIgnoresCallerStamps ==
    \A i \in InvIds :
        inv[i].hpc = "writing" =>
            LET properties == inv[i].args["properties"]
                before == inv[i].snap.yaml
                after == inv[i].pend.yaml
            IN /\ validateProperties(WithoutStamps(properties)) = {}
               /\ inv[i].pend =
                     SpliceContent(inv[i].snap,
                         mergeProperties(parseProperties(inv[i].snap),
                             WithoutStamps(properties), FALSE, after["modified"]))
               /\ after["modified"] <= now
               /\ "created" \in DOMAIN before =>
                     /\ "created" \in DOMAIN after
                     /\ after["created"] = before["created"]

(***************************************************************************)
(* C10 as stated.  For every successful update_properties call the         *)
(* modified value returned is greater than or equal to the modified value  *)
(* the note carried before the call.                                       *)
(***************************************************************************)
ModifiedNeverDecreases ==
    \A i \in InvIds :
        (/\ inv[i].hpc = "returned"
         /\ inv[i].produced.success
         /\ "modified" \in DOMAIN inv[i].snap.yaml) =>
            inv[i].produced.properties["modified"] >= inv[i].snap.yaml["modified"]

(***************************************************************************)
(* C10 as amended.  For every successful update_properties call on a note  *)
(* whose modified value is not later than the clock when the merge runs,   *)
(* the modified value returned is greater than or equal to the value the   *)
(* note carried.                                                           *)
(***************************************************************************)
ModifiedNotBeforeEarlierStamp ==
    [][\A i \in InvIds :
          /\ (/\ inv[i].hpc = "reading"
              /\ inv'[i].hpc = "writing"
              /\ "modified" \in DOMAIN notes[NotePath].yaml
              /\ notes[NotePath].yaml["modified"] <= now) =>
                inv'[i].merged["modified"] >= notes[NotePath].yaml["modified"]
          /\ (/\ inv[i].hpc = "writing"
              /\ inv'[i].hpc = "returned"
              /\ inv'[i].produced.success) =>
                /\ inv'[i].produced.properties["modified"] = inv[i].merged["modified"]
                /\ inv'[i].snap = inv[i].snap]_vars

\* a note stamped by an earlier update was updated again with success
ModifiedNotBeforeEarlierStampWitness ==
    \E i \in InvIds :
        /\ inv[i].hpc = "returned"
        /\ inv[i].produced.success
        /\ inv[i].snap.yaml["modified"] \in 1..MaxTime
        /\ inv[i].produced.properties["modified"] >= inv[i].snap.yaml["modified"]
        /\ inv[i].args["properties"] = UpdTitleStamped

(***************************************************************************)
(* C7.  The tag index is never seen partially updated: every tags response *)
(* is the complete result of one full scan, listing every tag of every     *)
(* file that scan indexed, also when reads and rebuilds overlap.           *)
(***************************************************************************)
ResponseIsOneFullScan ==
    lastAnswer.kind = "tags" =>
        \E index \in fullIndexes : lastAnswer.response.tags = TagEntries(index)

(***************************************************************************)
(* C8.  A getContent call that found the cache uninitialized, or last      *)
(* refreshed more than the update interval ago, answers only after a full  *)
(* rebuild that it started has completed; no answer carries a refresh time *)
(* older than the update interval.                                         *)
(***************************************************************************)
AnswerAfterOwnRebuild ==
    lastAnswer.kind = "tags" =>
        /\ lastAnswer.found \in {"uninitialized", "stale"} =>
              /\ lastAnswer.processed = Len(VaultFiles)
              /\ lastAnswer.response.lastUpdate = lastAnswer.at
        /\ ~Stale(lastAnswer.response.lastUpdate, lastAnswer.at)

\* a reader that found the cache stale answered after its rebuild
AnswerAfterOwnRebuildWitness ==
    /\ lastAnswer.kind = "tags"
    /\ lastAnswer.found = "stale"
    /\ lastAnswer.processed = Len(VaultFiles)
    /\ lastAnswer.at > UpdateIntervalMs
    /\ lastAnswer.response.uniqueTags = 2
    /\ lastAnswer.response.scannedFiles = Len(VaultFiles)

(***************************************************************************)
(* C11.  For a key whose existing and new values are both sequences,       *)
(* mergeProperties with replace = false yields a sequence whose elements   *)
(* are exactly the union of the two, none repeated, and with replace =     *)
(* true yields exactly the new sequence.                                   *)
(***************************************************************************)
NoRepeats(s) == Cardinality(SeqToSet(s)) = Len(s)

BothSequences(existing, updates) ==
    {k \in DOMAIN existing \cap DOMAIN updates : IsArray(k)}

ArrayMergeIsUnion ==
    calc.op = "merged" =>
        \A k \in BothSequences(calc.existing, calc.updates) :
            IF calc.replace
            THEN calc.merged[k] = calc.updates[k]
            ELSE /\ SeqToSet(calc.merged[k]) =
                       SeqToSet(calc.existing[k]) \cup SeqToSet(calc.updates[k])
                 /\ NoRepeats(calc.merged[k])

\* tags [a, b] updated with [b, c] gave [a, b, c]
ArrayMergeIsUnionWitness ==
    /\ calc.op = "merged"
    /\ ~calc.replace
    /\ calc.existing = Props1("tags", <<"a", "b">>)
    /\ calc.updates = Props1("tags", <<"b", "c">>)
    /\ calc.merged["tags"] = <<"a", "b", "c">>

Succeeded(i) ==
    /\ inv[i].name = UPDATE_PROPERTIES
    /\ inv[i].hpc = "returned"
    /\ inv[i].produced.kind = "content"
    /\ inv[i].produced.success

TagsStoredWithoutHash ==
    \A i \in InvIds :
        (Succeeded(i) /\ "tags" \in DOMAIN notes[NotePath].yaml) =>
            \A j \in DOMAIN notes[NotePath].yaml["tags"] :
                ~StartsWithHash(notes[NotePath].yaml["tags"][j])

(***************************************************************************)
(* C14.  After a successful update_properties call, every front-matter key *)
(* the note had before the call and that the update does not name is still *)
(* present in the note with the same value (modified excepted).            *)
(***************************************************************************)
UpdatePreservesUnnamedKeys ==
    \A i \in InvIds :
        Succeeded(i) =>
            \A k \in DOMAIN inv[i].snap.yaml
                        \ (DOMAIN inv[i].args["properties"] \cup {"modified"}) :
                /\ k \in DOMAIN notes[NotePath].yaml
                /\ notes[NotePath].yaml[k] = inv[i].snap.yaml[k]

(***************************************************************************)
(* C15.  validateProperties reports the input as invalid whenever it holds *)
(* an unknown top-level field, a status value outside the enum, or a       *)
(* malformed URI in repository or urls, and its result lists every such    *)
(* violation present in the input.                                         *)
(***************************************************************************)
\* the paths at which `properties' breaks the update schema
UnknownFields(properties) == {<<k>> : k \in DOMAIN properties \ UpdateSchemaKeys}

BadStatusValues(properties) ==
    IF "status" \notin DOMAIN properties THEN {}
    ELSE {<<"status", j - 1>> :
             j \in {n \in DOMAIN properties["status"] :
                       properties["status"][n] \notin StatusEnum}}

BadUris(properties) ==
    (IF "repository" \in DOMAIN properties /\ ~IsUrl(properties["repository"])
     THEN {<<"repository">>} ELSE {})
    \cup (IF "urls" \notin DOMAIN properties THEN {}
          ELSE {<<"urls", j - 1>> :
                   j \in {n \in DOMAIN properties["urls"] :
                             ~IsUrl(properties["urls"][n])}})

ValidationIsStrict ==
    calc.op = "validated" =>
        LET violations == UnknownFields(calc.updates)
                          \cup BadStatusValues(calc.updates)
                          \cup BadUris(calc.updates)
        IN /\ violations # {} => calc.errors # {}
           /\ \A path \in violations : \E e \in calc.errors : e[1] = path

(***************************************************************************)
(* C16.  An update whose properties fail validation returns a failure      *)
(* result at once: no backend read or write is issued for it and the       *)
(* note's content is unchanged.                                            *)
(***************************************************************************)
\* the invocation in the caller's slot was dispatched with invalid properties
InvalidUpdate(rec) ==
    /\ rec.name = UPDATE_PROPERTIES
    /\ rec.steps # <<>>
    /\ \E n \in DOMAIN rec.steps : rec.steps[n] = "Dispatched"
    /\ validateProperties(rec.args["properties"]) # {}

InvalidUpdateTouchesNothing ==
    [][InvalidUpdate(inv'[1]) =>
          /\ inv'[1].hpc = "returned"
          /\ inv'[1].calls = 0
          /\ inv'[1].produced = ContentResponse(FALSE, EmptyProps)
          /\ notes' = notes]_vars

InvalidUpdateTouchesNothingWitness ==
    /\ InvalidUpdate(inv[1])
    /\ inv[1].args["properties"] = UpdBadStatus
    /\ inv[1].calls = 0
    /\ inv[1].responses = <<ContentResponse(FALSE, EmptyProps)>>
    /\ notes[NotePath] = TaggedNote

(***************************************************************************)
(* C17.  After a successful updateProperties the note consists of exactly  *)
(* one front-matter block, the regenerated one, followed by the original   *)
(* note body unchanged: an existing block is replaced entirely, and a note *)
(* that had none gets the block prepended.                                 *)
(***************************************************************************)
UpdateReplacesBlockKeepsBody ==
    \A i \in InvIds :
        Succeeded(i) =>
            notes[NotePath] =
                NoteContent("yaml", inv[i].merged, Body(inv[i].snap))

(***************************************************************************)
(* C18.  An update of a note whose front-matter block is malformed YAML    *)
(* succeeds as an update from a blank slate: the existing properties are   *)
(* taken as empty, and the written note carries the regenerated front      *)
(* matter (the update's fields plus modified) in place of the malformed    *)
(* block.                                                                  *)
(***************************************************************************)
MalformedUpdatedFromBlankSlate ==
    \A i \in InvIds :
        (Succeeded(i) /\ inv[i].snap.fm \in {"malformed", "malformed-eof"}) =>
            LET sent == inv[i].args["properties"]
                fields == {k \in DOMAIN sent : ~SkipKey(k)}
            IN /\ DOMAIN inv[i].merged = fields \cup {"modified"}
               /\ \A k \in fields : inv[i].merged[k] = sent[k]
               /\ notes[NotePath] =
                     NoteContent("yaml", inv[i].merged, inv[i].snap.body)

(***************************************************************************)
(* C19.  For every well-formed front-matter block X,                       *)
(* generateProperties(parseProperties(X)) denotes a mapping with the same  *)
(* keys and the same values as X.                                          *)
(***************************************************************************)
RoundTripKeepsMapping ==
    calc.op = "roundtrip" =>
        /\ DOMAIN calc.generated.yaml = DOMAIN calc.block.yaml
        /\ \A k \in DOMAIN calc.block.yaml :
              calc.generated.yaml[k] = calc.block.yaml[k]

(***************************************************************************)
(* C20.  Every tool failure surfaces to the caller as a failure carrying a *)
(* message and a machine-readable code: no failed invocation (invalid      *)
(* properties, a missing note, a backend write error) is answered with a   *)
(* normal response.                                                        *)
(***************************************************************************)
FailuresSurfaceAsErrors ==
    \A i \in InvIds :
        \A n \in DOMAIN inv[i].responses :
            LET response == inv[i].responses[n]
            IN IF response.kind = "content"
               THEN response.success
               ELSE response.code # 0

(***************************************************************************)
(* C21.  Every domain error raised while an invocation is processed, other *)
(* than the success-with-no-content one, reaches the caller with the same  *)
(* code and the same message it was raised with.                           *)
(***************************************************************************)
DomainErrorsReachCaller ==
    \A i \in InvIds :
        \A error \in inv[i].raised :
            (error.code # SUCCESS_NO_CONTENT /\ inv[i].responses # <<>>) =>
                inv[i].thrown = {error}

(***************************************************************************)
(* C22.  An invocation with a path argument that contains ../ or has an    *)
(* absolute-path prefix fails with BadRequest at validation, and no        *)
(* backend call is issued for it.                                          *)
(***************************************************************************)
\* the paths of the model that contain ../ or begin with / or a drive letter
ForbiddenPaths == {"../evil.md", "a/../b.md", "/abs.md", "C:/abs.md"}

\* the invocation names a registered tool and its path argument is forbidden
HasForbiddenPath(rec) ==
    /\ rec.name \in toolHandlers
    /\ "filepath" \in DOMAIN rec.args
    /\ rec.args["filepath"].type = "string"
    /\ rec.args["filepath"].val \in ForbiddenPaths

ForbiddenPathIsBadRequest ==
    \A i \in InvIds :
        HasForbiddenPath(inv[i]) =>
            /\ inv[i].responses = <<ErrorResponse(BAD_REQUEST)>>
            /\ inv[i].calls = 0

\* As amended: the rate limiter is consulted before the arguments are
\* validated, so the invocation fails with RateLimited when the limiter denies
\* it and with BadRequest at validation otherwise; in both cases runTool is
\* not started and no backend call is issued.
ForbiddenPathNeverReachesBackend ==
    \A i \in InvIds :
        HasForbiddenPath(inv[i]) =>
            /\ inv[i].calls = 0
            /\ inv[i].hpc = "none"
            /\ inv[i].produced = NoResponse
            /\ IF inv[i].limited = "denied"
               THEN /\ inv[i].responses = <<ErrorResponse(RATE_LIMIT_EXCEEDED)>>
                    /\ inv[i].steps = <<"Received", "Failed">>
               ELSE /\ inv[i].responses = <<ErrorResponse(BAD_REQUEST)>>
                    /\ inv[i].steps = <<"Received", "RateChecked", "Failed">>

\* an absolute path was turned down by the rate limiter after a traversal
\* path had been turned down by validation
ForbiddenPathNeverReachesBackendWitness ==
    \E i \in InvIds :
        /\ HasForbiddenPath(inv[i])
        /\ inv[i].args["filepath"].val = "/abs.md"
        /\ inv[i].responses = <<ErrorResponse(RATE_LIMIT_EXCEEDED)>>
        /\ inv[i].calls = 0
        /\ requestCounts[GET_FILE_CONTENTS].count = MaxRequests

(***************************************************************************)
(* C23.  Argument validation is complete: the errors list holds one        *)
(* violation for every missing required field, every unknown top-level     *)
(* field, every field whose value does not match its declared type and     *)
(* every path violation of the call.                                       *)
(***************************************************************************)
TypeMessages ==
    {"must be a string", "must be a number", "must be a boolean",
     "must be an array", "must be an object"}

\* the violations a complete validation of the call reports, as
\* <<kind, field>>
ViolationsOf(name, args) ==
    {<<"missing", f>> : f \in InputSchemaRequired(name) \ DOMAIN args}
    \cup {<<"unknown", f>> : f \in DOMAIN args \ InputSchemaFields(name)}
    \cup {<<"type", f>> :
             f \in {g \in DOMAIN args \cap InputSchemaFields(name) :
                       typeof(args[g]) # InputSchemaType(name, g)}}
    \cup {<<"path", f>> :
             f \in {g \in DOMAIN args \cap InputSchemaPaths(name) :
                       /\ typeof(args[g]) = "string"
                       /\ args[g].val \in ForbiddenPaths}}

Reports(errors, violation) ==
    \E e \in errors :
        /\ e[2] = violation[2]
        /\ CASE violation[1] = "missing" -> e[1] = "Missing required field"
             [] violation[1] = "unknown" -> e[1] = "Unknown field"
             [] violation[1] = "type" -> e[1] \in TypeMessages
             [] violation[1] = "path" ->
                    e[1] \in {"Invalid file path: Path traversal not allowed",
                              "Invalid file path: Absolute paths not allowed"}

ArgumentValidationIsComplete ==
    calc.op = "argsValidated" =>
        \A violation \in ViolationsOf(calc.name, calc.args) :
            Reports(calc.errors, violation)

(***************************************************************************)
(* C24.  An invocation of a tool name that is not in the handler registry  *)
(* fails with NotFound: no handler is run and no backend call is issued    *)
(* for it.                                                                 *)
(***************************************************************************)
UnknownName(rec) ==
    rec.steps # <<>> /\ rec.name \notin {UPDATE_PROPERTIES, GET_FILE_CONTENTS}

UnknownToolIsNotFound ==
    \A i \in InvIds :
        UnknownName(inv[i]) =>
            /\ inv[i].responses = <<ErrorResponse(NOT_FOUND)>>
            /\ inv[i].steps = <<"Received", "Failed">>
            /\ inv[i].hpc = "none"
            /\ inv[i].produced = NoResponse
            /\ inv[i].calls = 0

\* an unknown name is turned down while the registered tools' windows are
\* full: the rate limiter was not consulted for it
UnknownToolIsNotFoundWitness ==
    \E i \in InvIds :
        /\ UnknownName(inv[i])
        /\ inv[i].responses = <<ErrorResponse(NOT_FOUND)>>
        /\ inv[i].calls = 0
        /\ inv[i].name \notin DOMAIN requestCounts
        /\ \A k \in DOMAIN requestCounts : requestCounts[k].count = MaxRequests
        /\ requestCounts # <<>>

(***************************************************************************)
(* C25.  Nothing is retried: within one invocation runTool is called at    *)
(* most once and each backend request is issued at most once, a tool that  *)
(* ended with a failure has returned for good, and the failure is what     *)
(* the caller holds (unless the caller was answered Timeout before).       *)
(***************************************************************************)
ReportsFailure(response) ==
    \/ response.kind = "error"
    \/ response.kind = "content" /\ ~response.success

ToolFailed(rec) == rec.hpc = "returned" /\ ReportsFailure(rec.produced)

NoRetries ==
    \A i \in InvIds :
        /\ NoRepeats(inv[i].steps)
        /\ inv[i].calls <= IF inv[i].name = UPDATE_PROPERTIES THEN 2 ELSE 1
        /\ Len(inv[i].responses) <= 1
        /\ ToolFailed(inv[i]) =>
              /\ inv[i].calls >= 1 \/ inv[i].name = UPDATE_PROPERTIES
              /\ inv[i].first = "tool" => inv[i].responses = <<inv[i].produced>>
              /\ inv[i].first = "timer" =>
                    inv[i].responses = <<ErrorResponse(TIMEOUT)>>
        /\ (inv[i].responses # <<>> /\ inv[i].hpc = "none") =>
              /\ inv[i].responses[1].kind = "error"
              /\ inv[i].calls = 0

\* a getFileContents that the backend failed was asked once, and the caller
\* holds the failure
NoRetriesWitness ==
    \E i \in InvIds :
        /\ inv[i].name = GET_FILE_CONTENTS
        /\ ToolFailed(inv[i])
        /\ inv[i].calls = 1
        /\ inv[i].steps = Append(PipelineOrder, "Failed")
        /\ inv[i].responses = <<ErrorResponse(NOT_FOUND)>>

(***************************************************************************)
(* C26.  In every reachable state of the rate limiter, the count stored    *)
(* for a key that has a window does not exceed maxRequests.                *)
(***************************************************************************)
CountWithinMaxRequests ==
    \A key \in DOMAIN requestCounts :
        /\ requestCounts[key].count >= 1
        /\ requestCounts[key].count <= MaxRequests

\* a call was denied in a full window, and the count stayed at maxRequests
CountWithinMaxRequestsWitness ==
    /\ lastCheck.key # ""
    /\ ~lastCheck.allowed
    /\ lastCheck.key \in DOMAIN requestCounts
    /\ requestCounts[lastCheck.key].count = MaxRequests
    /\ callsInWindow[lastCheck.key].calls = MaxCalls

(***************************************************************************)
(* C27.  A file that cannot be fetched does not abort a tag scan: the scan *)
(* goes on to the next file, and it ends with the cache marked             *)
(* initialized, the refresh time stamped and the tags of the files it      *)
(* fetched in the index.                                                   *)
(***************************************************************************)
\* every tag of `own' is in `cache' with at least the files it has in `own'
IndexHolds(cache, own) ==
    \A tag \in DOMAIN own :
        tag \in DOMAIN cache /\ own[tag] \subseteq cache[tag]

ScanToleratesFileFailure ==
    [][\A p \in Scanners :
          (scans[p].pc = "fetch" /\ scans'[p] # scans[p]) =>
              IF scans[p].k < Len(VaultFiles)
              THEN scans'[p].pc = "fetch" /\ scans'[p].k = scans[p].k + 1
              ELSE /\ isInitialized'
                   /\ lastUpdate' = now
                   /\ IndexHolds(tagCache', scans[p].own)]_vars

(***************************************************************************)
(* C28.  A tags response lists each tag exactly once, with count equal to  *)
(* the number of distinct files whose front matter contains the tag and    *)
(* with those files sorted, the entries ordered by count descending and    *)
(* then by name ascending.                                                 *)
(***************************************************************************)
\* the files of the vault whose front matter contains the tag
FilesTagged(tag) ==
    {VaultFiles[n] : n \in {m \in DOMAIN VaultFiles :
        tag \in SeqToSet(FileTags(VaultContent(VaultFiles[m])))}}

VaultTags ==
    UNION {SeqToSet(FileTags(VaultContent(VaultFiles[n]))) : n \in DOMAIN VaultFiles}

TagsResponseCountsFiles ==
    lastAnswer.kind = "tags" =>
        LET entries == lastAnswer.response.tags
        IN /\ {entries[n].name : n \in DOMAIN entries} = VaultTags
           /\ \A m, n \in DOMAIN entries :
                 /\ entries[m].name = entries[n].name => m = n
                 /\ m < n =>
                       \/ entries[m].count > entries[n].count
                       \/ /\ entries[m].count = entries[n].count
                          /\ NameRank(entries[m].name) < NameRank(entries[n].name)
           /\ \A n \in DOMAIN entries :
                 /\ entries[n].count = Cardinality(FilesTagged(entries[n].name))
                 /\ entries[n].files = SortedFiles(FilesTagged(entries[n].name))

(***************************************************************************)
(* C29.  For every response text and every token ceiling, the text that    *)
(* truncateToTokenLimit returns has no more tokens than the ceiling; a     *)
(* text over the ceiling is cut to (ceiling - notice length) tokens and    *)
(* the truncation notice is appended.                                      *)
(***************************************************************************)
TruncatedWithinCeiling ==
    calc.op = "truncated" =>
        /\ Len(calc.result) <= calc.limit
        /\ Len(calc.tokens) <= calc.limit => calc.result = calc.tokens
        /\ Len(calc.tokens) > calc.limit =>
              calc.result =
                  SubSeq(calc.tokens, 1, calc.limit - Len(TRUNCATION_MESSAGE))
                      \o TRUNCATION_MESSAGE

(***************************************************************************)
(* C30.  updateProperties never raises: for every failure of the backend   *)
(* read, the parse, the front-matter generation or the backend write it    *)
(* returns a result with success = false.                                  *)
(***************************************************************************)
\* updateProperties of invocation i has returned
UpdateReturned(i) ==
    inv[i].name = UPDATE_PROPERTIES /\ inv[i].hpc = "returned"

\* the content has a front-matter block that the YAML parser rejects
ParseFailed(content) ==
    content.fm \in {"malformed", "malformed-eof"}

\* a backend request of the invocation failed before its caller was answered
BackendFailed(i) == ClientError \in inv[i].raised

CleanupBeforeExit ==
    proc.exitCode # -1 =>
        /\ proc.settled = 1..proc.handlers
        /\ proc.disposed
        /\ proc.closeCalls >= 1
        /\ \E s \in Signals : proc.runs[s].pc = "done"
        /\ proc.exitCode = 0 => proc.closed
        /\ proc.exitCode \in {0, 1}

\* the first of two handlers threw, the second was run, and the process
\* exited after the server was closed
CleanupBeforeExitWitness ==
    /\ proc.exitCode = 0
    /\ proc.handlers = 2
    /\ 1 \in proc.threw
    /\ proc.settled = {1, 2}
    /\ proc.disposed
    /\ proc.closed

(***************************************************************************)
(* C32.  mergeProperties sets modified to the current time in every merge, *)
(* also when the update is empty or changes no value, and leaves every key *)
(* of the existing properties that the update does not name with its       *)
(* existing value.                                                         *)
(***************************************************************************)
MergeStampsAndKeepsUnnamed ==
    [][(calc.op = "input" /\ calc'.op = "merged") =>
          /\ "modified" \in DOMAIN calc'.merged
          /\ calc'.merged["modified"] = now
          /\ \A k \in DOMAIN calc.existing
                        \ (DOMAIN calc.updates \cup {"modified"}) :
                /\ k \in DOMAIN calc'.merged
                /\ calc'.merged[k] = calc.existing[k]
          /\ DOMAIN calc'.merged \subseteq
                DOMAIN calc.existing \cup DOMAIN calc.updates \cup {"modified"}]_vars

\* an empty update of properties stamped 0 gave the same properties stamped
\* with the later current time
MergeStampsAndKeepsUnnamedWitness ==
    /\ calc.op = "merged"
    /\ calc.updates = EmptyProps
    /\ calc.existing = Props3("title", "t1", "tags", <<"a", "b">>, "modified", 0)
    /\ now = MaxTime
    /\ calc.merged = Props3("title", "t1", "tags", <<"a", "b">>, "modified", now)

(***************************************************************************)
(* C33.  An answered invocation leaves no live timeout behind: a timer is  *)
(* armed only while its invocation awaits the race between runTool and the *)
(* timeout, and no timeoutPromise rejects with nobody awaiting it (which   *)
(* would reach the process's unhandledRejection handler).                  *)
(***************************************************************************)
AnsweredLeavesNoTimeout ==
    \A i \in InvIds :
        /\ inv[i].timer = "armed" => inv[i].race = "pending"
        /\ ~inv[i].unhandled


(***************************************************************************)
(* C34: a refresh whose vault-wide query fails                             *)
(***************************************************************************)
\* Reader r's getContent ends in this step because its searchJson failed.
QueryFails(r) ==
    /\ scans[r].pc = "search"
    /\ scans'[r].pc = "idle"
    /\ lastAnswer'.kind = "error"

\* C34: when the vault-wide file query of a getContent's refresh fails, the
\* call fails, and the cache is then as the call found it: still
\* uninitialized if it was found so, still stale otherwise, with the tag
\* map, flag and refresh time untouched by the failure, so that the next
\* getContent starts a full rebuild.
FailedRefreshLeavesRebuildDue ==
    [][\A r \in Readers :
          QueryFails(r) =>
             /\ UNCHANGED <<tagCache, isInitialized, lastUpdate>>
             /\ scans[r].found = "uninitialized" => ~isInitialized'
             /\ ~isInitialized' \/ Stale(lastUpdate', now')]_vars


(***************************************************************************)
(* C35: the sweep cannot be observed through checkRateLimit                *)
(***************************************************************************)
\* The map of a limiter given the same calls at the same times and never
\* swept: the window the clock alone opened for each key, its count held at
\* MaxRequests by the denials.
NeverSwept ==
    [k \in {j \in toolHandlers : callsInWindow[j].start >= 0} |->
        [count |-> IF callsInWindow[k].calls < MaxRequests
                   THEN callsInWindow[k].calls ELSE MaxRequests,
         resetTime |-> callsInWindow[k].start + WindowMs]]

\* C35: whatever sweeps ran between the calls, every checkRateLimit call
\* returns the answer the never-swept limiter returns for it (and that
\* limiter's map moves by the same call and by nothing else), every window
\* the real map holds is the never-swept one, every window it lacks is one
\* whose resetTime has passed, and a step deletes only windows whose
\* resetTime has passed.
SweepIsInvisible ==
    [][/\ callsInWindow' # callsInWindow =>
             /\ lastCheck'.allowed = checkRateLimit(NeverSwept, lastCheck'.key, now)
             /\ NeverSwept' = AfterCheck(NeverSwept, lastCheck'.key, now)
       /\ callsInWindow' = callsInWindow => NeverSwept' = NeverSwept
       /\ \A k \in DOMAIN requestCounts' : requestCounts'[k] = NeverSwept'[k]
       /\ \A k \in DOMAIN NeverSwept' \ DOMAIN requestCounts' :
             now' > NeverSwept'[k].resetTime
       /\ \A k \in DOMAIN requestCounts \ DOMAIN requestCounts' :
             now > requestCounts[k].resetTime]_vars

\* one key's window was swept after its resetTime, and then the other key,
\* its window full and not yet over, was denied
SweepIsInvisibleWitness ==
    /\ GET_FILE_CONTENTS \notin DOMAIN requestCounts
    /\ callsInWindow[GET_FILE_CONTENTS].start = 0
    /\ now > WindowMs
    /\ lastCheck.key = UPDATE_PROPERTIES
    /\ lastCheck.at = now
    /\ ~lastCheck.allowed
    /\ requestCounts[UPDATE_PROPERTIES].count = MaxRequests


(***************************************************************************)
(* C36: what a checkRateLimit call leaves alone                            *)
(***************************************************************************)
\* C36: a denied checkRateLimit call leaves the whole map as it was; a
\* call on one key, whatever its answer, leaves every other key's window
\* as it was, present or absent; and a call on a key whose window has not
\* expired leaves that window's resetTime as it was.
CheckChangesOnlyItsWindow ==
    [][callsInWindow' # callsInWindow =>
          LET key == lastCheck'.key
          IN /\ ~lastCheck'.allowed => requestCounts' = requestCounts
             /\ \A k \in toolHandlers \ {key} :
                   /\ k \in DOMAIN requestCounts' <=> k \in DOMAIN requestCounts
                   /\ k \in DOMAIN requestCounts =>
                         requestCounts'[k] = requestCounts[k]
             /\ (key \in DOMAIN requestCounts /\ ~(now > requestCounts[key].resetTime))
                   => requestCounts'[key].resetTime = requestCounts[key].resetTime]_vars

\* a key was denied at its resetTime while the other key holds a window
\* opened later
CheckChangesOnlyItsWindowWitness ==
    /\ lastCheck.key = GET_FILE_CONTENTS
    /\ ~lastCheck.allowed
    /\ lastCheck.at = now
    /\ now = requestCounts[GET_FILE_CONTENTS].resetTime
    /\ UPDATE_PROPERTIES \in DOMAIN requestCounts
    /\ requestCounts[UPDATE_PROPERTIES].resetTime > now
    /\ requestCounts[UPDATE_PROPERTIES].count = 1


(***************************************************************************)
(* C37: the windows held are windows of registered tools                   *)
(***************************************************************************)
\* C37: there are never more rate-limit windows than registered tool
\* names, every window being that of a registered name, and the step that
\* receives an invocation of an unknown name leaves the map of windows
\* exactly as it was.
WindowsOnlyForRegisteredTools ==
    [][/\ DOMAIN requestCounts' \subseteq toolHandlers
       /\ Cardinality(DOMAIN requestCounts') <= Cardinality(toolHandlers)
       /\ \A i \in InvIds :
             (inv[i].steps = <<>> /\ UnknownName(inv'[i]))
                => requestCounts' = requestCounts]_vars

\* an unknown name has just been turned down while every registered tool
\* holds a window, one of them with room left
WindowsOnlyForRegisteredToolsWitness ==
    \E i \in InvIds :
        /\ UnknownName(inv[i])
        /\ inv[i].steps = <<"Received", "Failed">>
        /\ DOMAIN requestCounts = toolHandlers
        /\ \E k \in toolHandlers : requestCounts[k].count < MaxRequests

====
